---- MODULE Spec2Model ----
(***************************************************************************)
(* Model of the content change detection pipeline of meta_news_bot:        *)
(* run_update (src/src/pipeline.py), the cache store (src/src/storage.py)  *)
(* and the summarizer client (src/src/summarize.py, src/src/llm_client.py).*)
(*                                                                         *)
(* Modelling conventions                                                   *)
(*  - a URL is a sequence of tokens; "x in url" of the code is Contains.   *)
(*  - an HTML document is a record: its visible text as a sequence of      *)
(*    sentences/stamps, and its h2/h3 sections.                            *)
(*  - sha256 is modelled as an injective tagging of its input.             *)
(*  - a missing dictionary key is the value "NONE" (region) or 0 (ts);     *)
(*    an ISO timestamp is a natural number, compared as the strings are.   *)
(*  - MAX_ITEMS_TOTAL = None is the value 0 (the code tests truthiness).   *)
(***************************************************************************)
EXTENDS Integers, Sequences, FiniteSets, TLC

VARIABLES
    \* configuration, fixed for the life of the process
    maxItemsTotal, pruneEnabled,
    \* data/cache/cache.json: the "items" list of the document on disk
    disk,
    \* run_update: position and locals
    pc, run, i, attempt, err, proxyRegion, html, fetchRaised,
    cache, idx, errors, details, changed_pages, changed_sections_total,
    \* module-level state of pipeline.py and the wall clock
    trans_cache, clock,
    \* history of the run, kept for stating the properties
    outcome, fetched, prevFetched, replay, dec, pruned, llmCalls, sentDiffs, sumFailed,
    \* the file system under save_cache / load_cache
    fsTmp, fsCanon, inodes, writers, readerSaw,
    \* the shape of the document in cache.json, the document in the backup gist
    diskKind, gist,
    \* who started the run, what the notification layer announced for it, how many
    \* times the run wrote cache.json, and the call that made the run raise
    caller, announced, saves, fault,
    \* storage.get_items: the input and the result of a call of load_cache
    loaded,
    \* pipeline._summarize_async: the free permits of _llm_sem, the holder of
    \* _llm_lock (0: nobody), _last_llm_ts, time.monotonic(), each caller's
    \* position, the end of each caller's sleep, the times at which the calls of
    \* summarize_rules were started
    llm_sem, llm_lock, last_llm_ts, mono, gpc, wake, starts,
    \* two fetches of one page and what the change detection makes of them
    cmp,
    \* the two sentence lists of a changed page and the global_diff made of them
    diff,
    \* a helper function of the program: its argument and what it returned
    call

pvars == <<maxItemsTotal, pruneEnabled, disk, pc, run, i, attempt, err,
           proxyRegion, html, fetchRaised, cache, idx, errors, details,
           changed_pages, changed_sections_total, trans_cache, clock,
           outcome, fetched, prevFetched, replay, dec, pruned, llmCalls, sentDiffs,
           sumFailed, diskKind, gist, caller, announced, saves, fault>>

jvars == <<diskKind, gist, caller, announced, saves, fault>>

fvars == <<fsTmp, fsCanon, inodes, writers, readerSaw>>

\* the variables of the other components
lvars == <<loaded>>

gvars == <<llm_sem, llm_lock, last_llm_ts, mono, gpc, wake, starts>>

dvars == <<cmp, diff, call>>

xvars == <<lvars, gvars, dvars>>

\* what a step of run_update never touches
ovars == <<fvars, xvars>>

vars == <<pvars, fvars, xvars>>

----------------------------------------------------------------------------
(* Bounds of the model *)

MaxRuns == 1
MaxClock == 3
MaxBound == 2
NWriters == 2
MaxSaves == 1
ChunksPerDoc == 2

\* FETCH_RETRIES and LLM_RETRY_ATTEMPTS are read from the environment; the model
\* runs with these values
FETCH_RETRIES == 2
LLM_RETRY_ATTEMPTS == 2

----------------------------------------------------------------------------
(* Helpers on sequences and sets *)

Contains(s, tok) == \E k \in 1..Len(s) : s[k] = tok

SetMax(S) == CHOOSE x \in S : \A y \in S : y <= x

----------------------------------------------------------------------------
(* config.json: the ordered source list *)

SOURCES ==
    << [tag |-> "wa", url |-> <<"whatsapp.com", "/legal">>, region |-> "NONE"],
       [tag |-> "fb", url |-> <<"facebook.com", "/policies">>, region |-> "MD"],
       [tag |-> "", url |-> <<"about.fb.com", "/news">>, region |-> "NONE"] >>

NSrc == Len(SOURCES)

\* src.get("region", "GLOBAL") / it.get("region", "GLOBAL")
RegionOf(r) == IF r.region = "NONE" THEN "GLOBAL" ELSE r.region

\* PROXY_FALLBACK_EU and PROXY_URL_EU
FALLBACK_EU == TRUE

FbDomains == {"facebook.com", "transparency.meta.com", "about.fb.com",
              "developers.facebook.com"}

\* a variant that appends the parameter whether or not it is there already
_fix_facebook_url_always(url) ==
    IF \E d \in FbDomains : Contains(url, d)
    THEN url \o << (IF Contains(url, "?") THEN "&" ELSE "?"), "_fb_noscript=1" >>
    ELSE url

_fix_facebook_url(url) ==
    IF (\E d \in FbDomains : Contains(url, d)) /\ ~Contains(url, "_fb_noscript=1")
    THEN url \o << (IF Contains(url, "?") THEN "&" ELSE "?"), "_fb_noscript=1" >>
    ELSE url

----------------------------------------------------------------------------
(* HTML documents the fetcher can return *)

Sec(t, b) == [title |-> t, body |-> b]

D1 == [kind |-> "page", plain |-> <<"a.", "upd1">>, secs |-> <<Sec("Intro", <<"x.">>)>>]
D2 == [kind |-> "page", plain |-> <<"a.", "upd1", "b.">>,
       secs |-> <<Sec("Intro", <<"x.">>), Sec("Fees", <<"y.">>)>>]
D3 == [kind |-> "page", plain |-> <<"c.">>, secs |-> <<Sec("INTRO", <<"z.", "iso1">>)>>]
D4 == [kind |-> "page", plain |-> <<>>, secs |-> <<>>]
DBlock == [kind |-> "blocked", plain |-> <<"You're Temporarily Blocked">>, secs |-> <<>>]
NoHtml == [kind |-> "none", plain |-> <<>>, secs |-> <<>>]

\* what the page of each source can hold at the time of a fetch
DocsOf(k) == IF k = 1 THEN {D1, D2, D3} ELSE {D1, D4}
\* the sources that answer with a block page at times
Blocking == {2}

\* the update stamps a page can carry, two dates in each format:
\*   updated_on    "Updated on January 5, 2024"
\*   poslednee     "Последнее обновление: 05.01.2024"
\*   last_updated  "Last updated: 5 January 2024"
\*   obnovleno     "Обновлено 05.01.2024"
\*   iso           "2024-01-05"
\*   ru_date       "5 января 2024"
\*   updated_colon "Updated: 2024-01-05"
StampFormats ==
    [updated_on |-> {"upd1", "upd2"}, poslednee |-> {"posl1", "posl2"},
     last_updated |-> {"last1", "last2"}, obnovleno |-> {"obn1", "obn2"},
     iso |-> {"iso1", "iso2"}, ru_date |-> {"rud1", "rud2"},
     updated_colon |-> {"updc1", "updc2"}]

\* html_clean._UPDATED_PATTERNS: the stamps clean_html deletes from the page text
UpdatedStamps ==
    StampFormats.updated_on \cup StampFormats.poslednee
        \cup StampFormats.last_updated \cup StampFormats.obnovleno

\* summarize._NOISE_RE, second and third alternative: the dates deleted alone
NoiseStamps == StampFormats.iso \cup StampFormats.ru_date

\* summarize._NOISE_RE, first alternative: the stamps that begin with one of its
\* marker phrases; the match runs to the end of the line, which is the end of
\* the text once normalize_plain has turned every whitespace run into a blank
NoiseMarkers ==
    StampFormats.updated_on \cup StampFormats.last_updated \cup StampFormats.obnovleno
        \cup StampFormats.updated_colon

NotUpdated(t) == t \notin UpdatedStamps
NotNoise(t) == t \notin NoiseStamps

\* clean_html(html, url)[1]: the stabilised plain text
clean_html(h) == SelectSeq(h.plain, NotUpdated)

normalize_plain(plain) ==
    LET marks == {k \in 1..Len(plain) : plain[k] \in NoiseMarkers}
        first == CHOOSE k \in marks : \A m \in marks : k <= m
        head == IF marks = {} THEN plain ELSE SubSeq(plain, 1, first - 1)
    IN  SelectSeq(head, NotNoise)

compute_hash(text) == <<"sha256", text>>

\* _slug on the headings of the documents above
_slug(title) ==
    CASE title = "Intro" -> "intro"
      [] title = "INTRO" -> "intro"
      [] title = "Fees" -> "fees"
      [] OTHER -> "section"

extract_section(s) ==
    [id |-> _slug(s.title), title |-> s.title, text |-> s.body,
     sig |-> compute_hash(normalize_plain(<<s.title>> \o s.body))]

extract_sections(h) == [k \in 1..Len(h.secs) |-> extract_section(h.secs[k])]

\* {s["id"]: s for s in sections}: a later section replaces an earlier one
SecIds(secs) == {secs[k].id : k \in 1..Len(secs)}
SecMap(secs) ==
    [sid \in SecIds(secs) |-> secs[SetMax({k \in 1..Len(secs) : secs[k].id = sid})]]

----------------------------------------------------------------------------
(* Cache items *)

KeyOf(it) == <<it.tag, it.url, RegionOf(it)>>

NoItem == [tag |-> "", url |-> <<>>, region |-> "NONE", summary |-> <<>>, ts |-> 0,
           hash |-> <<>>, sections |-> <<>>, full_text |-> <<>>]

\* the item run_update builds (lines 649-660)
MakeItem(tag, url, region, summary, ts, h) ==
    [tag |-> tag, url |-> url, region |-> region, summary |-> summary, ts |-> ts,
     hash |-> compute_hash(normalize_plain(clean_html(h))),
     sections |-> extract_sections(h), full_text |-> clean_html(h)]

\* idx = {(tag, url, region): i for i, it in enumerate(cache)}
BuildIdx(c) ==
    [k \in {KeyOf(c[j]) : j \in 1..Len(c)} |->
        SetMax({j \in 1..Len(c) : KeyOf(c[j]) = k})]

\* cache.sort(key=lambda x: x.get("ts", ""), reverse=True): a stable sort
\* a variant of the insertion that places an item before the items of equal ts
InsertByTs_before_equal(sorted, x) ==
    LET k == Cardinality({j \in 1..Len(sorted) : sorted[j].ts > x.ts})
    IN  SubSeq(sorted, 1, k) \o <<x>> \o SubSeq(sorted, k + 1, Len(sorted))

InsertByTs(sorted, x) ==
    LET k == Cardinality({j \in 1..Len(sorted) : sorted[j].ts >= x.ts})
    IN  SubSeq(sorted, 1, k) \o <<x>> \o SubSeq(sorted, k + 1, Len(sorted))

RECURSIVE SortAcc(_, _, _)
SortAcc(s, k, acc) ==
    IF k > Len(s) THEN acc ELSE SortAcc(s, k + 1, InsertByTs(acc, s[k]))

SortByTsDesc(s) == SortAcc(s, 1, <<>>)

\* storage.get_cache_stats()["max_cache"], items being what load_cache returned
max_cache(items) == IF maxItemsTotal # 0 THEN maxItemsTotal ELSE Len(items)

\* the truncation of lines 697-698
Truncate(sorted, bound) ==
    IF bound # 0 /\ Len(sorted) > bound THEN SubSeq(sorted, 1, bound) ELSE sorted

SrcValid(s) == s.tag # "" /\ s.url # <<>>

\* the key set of the prune step (line 692)
valid_tuples ==
    {<<SOURCES[k].tag, SOURCES[k].url, RegionOf(SOURCES[k])>> :
        k \in {j \in 1..NSrc : SrcValid(SOURCES[j])}}

Prune(c) ==
    LET Keep(it) == KeyOf(it) \in valid_tuples
    IN  IF pruneEnabled THEN SelectSeq(c, Keep) ELSE c

----------------------------------------------------------------------------
(* The structural diff and the change decision (lines 563-587) *)

\* a variant that leaves added_ids empty when there is no previous item
AddedIds_no_first_seen(present, old_secs, new_secs) ==
    IF present THEN SecIds(new_secs) \ SecIds(old_secs) ELSE {}

AddedIds(present, old_secs, new_secs) ==
    IF present THEN SecIds(new_secs) \ SecIds(old_secs) ELSE SecIds(new_secs)

RemovedIds(present, old_secs, new_secs) ==
    IF present THEN SecIds(old_secs) \ SecIds(new_secs) ELSE {}

ModifiedIds(present, old_secs, new_secs) ==
    IF present
    THEN {sid \in SecIds(new_secs) \cap SecIds(old_secs) :
            SecMap(new_secs)[sid].sig # SecMap(old_secs)[sid].sig}
    ELSE {}

\* a variant that compares page_sig with a field the items do not have
changed_here_wrong_field(added, removed, modified, present, old_hash, page_sig) ==
    \/ added # {}
    \/ removed # {}
    \/ modified # {}
    \/ ~present
    \/ (present /\ <<>> # page_sig)

\* a variant without the test for a first-seen page
changed_here_no_first_seen(added, removed, modified, present, old_hash, page_sig) ==
    \/ added # {}
    \/ removed # {}
    \/ modified # {}
    \/ (present /\ old_hash # page_sig)

changed_here(added, removed, modified, present, old_hash, page_sig) ==
    \/ added # {}
    \/ removed # {}
    \/ modified # {}
    \/ ~present
    \/ (present /\ old_hash # page_sig)

----------------------------------------------------------------------------
(* The summarizer: llm_client._post_json, chat and summarize.summarize_rules *)

API_KEY == TRUE

AttemptOutcomes ==
    {"ok", "ok_empty", "ok_nochoices", "badjson", "retry_status", "http_error", "netexc"}

Returned == {"ok", "ok_empty", "ok_nochoices"}

\* _post_json: the first attempt that returns a parsed body ends the loop; every
\* exception is retried, and the last attempt's exception is re-raised as it is
RECURSIVE _post_json(_, _)
_post_json(outs, k) ==
    IF outs[k] \in Returned THEN outs[k]
    ELSE IF k = LLM_RETRY_ATTEMPTS
         THEN (IF outs[k] = "retry_status" THEN "LLMError" ELSE "Exception")
         ELSE _post_json(outs, k + 1)

\* chat: "text", "empty", "LLMError" or "Exception"
chat(outs) ==
    IF ~API_KEY THEN "LLMError"
    ELSE LET data == _post_json(outs, 1)
         IN  CASE data = "ok" -> "text"
               [] data = "ok_empty" -> "empty"
               [] data = "ok_nochoices" -> "LLMError"
               [] OTHER -> data

SumLLM(plain) == <<"llm", plain>>
_fallback_summarize(plain) == IF plain = <<>> THEN <<>> ELSE <<"fallback", plain>>

\* every way a call of chat can end, over the answers of the LLM endpoint
ChatResults == {chat(outs) : outs \in [1..LLM_RETRY_ATTEMPTS -> AttemptOutcomes]}

\* summarize_rules, given how its call of chat ends: raised, or the value returned
\* (called: the LLM was asked; failed: the LLM request failed)
summarize_rules(plain, r) ==
    IF plain = <<>> THEN [raised |-> FALSE, value |-> <<>>, called |-> FALSE, failed |-> FALSE]
    ELSE     CASE r = "text" ->
                    [raised |-> FALSE, value |-> SumLLM(plain), called |-> TRUE, failed |-> FALSE]
               [] r = "empty" ->
                    [raised |-> FALSE, value |-> _fallback_summarize(plain), called |-> TRUE,
                     failed |-> FALSE]
               [] r = "LLMError" ->
                    [raised |-> FALSE, value |-> _fallback_summarize(plain), called |-> TRUE,
                     failed |-> TRUE]
               [] OTHER ->
                    [raised |-> TRUE, value |-> <<>>, called |-> TRUE, failed |-> TRUE]

----------------------------------------------------------------------------
(* Cache documents the process can find on disk when it starts *)

ItWa1 == MakeItem("wa", SOURCES[1].url, "NONE", <<"old">>, 1, D1)
ItWa2 == MakeItem("wa", SOURCES[1].url, "GLOBAL", <<"old">>, 1, D3)
ItOld == MakeItem("old", <<"example.com", "/gone">>, "GLOBAL", <<"old">>, 2, D1)

InitialFiles ==
    { <<>>,                      \* cold cache
      <<ItOld, ItWa1>>,          \* a removed source's item, a legacy item without region
      <<ItWa1, ItWa2>> }         \* two items of one identity

----------------------------------------------------------------------------
(* storage.load_cache.  A JSON value is a record: its kind and, for an object  *)
(* with a list under "items" ("dict") or a bare list ("list"), the items.      *)
(* Other kinds: "dict_noitems" (an object without a list under "items"),       *)
(* "scalar" (a number or a string), and for a file "missing" and "garbage"     *)
(* (not JSON).  The gist is "disabled" (no token or id), "none" (the request   *)
(* failed or the content is falsy) or a truthy JSON value.                     *)

DictDoc(items) == [kind |-> "dict", items |-> items]
ListDoc(items) == [kind |-> "list", items |-> items]
OtherDoc(k) == [kind |-> k, items |-> <<>>]

\* the document in cache.json
DiskDoc == [kind |-> diskKind, items |-> disk]

\* load_cache: the value returned, and whether the restore path wrote cache.json
\* (saveOk: the save_cache call of line 48 succeeds)
load_cache(file, backup, saveOk) ==
    IF file.kind \in {"dict", "list"}
    THEN [raised |-> FALSE, value |-> DictDoc(file.items), wrote |-> FALSE]
    ELSE IF file.kind \in {"dict_noitems", "scalar"}
    THEN [raised |-> FALSE, value |-> DictDoc(<<>>), wrote |-> FALSE]
    ELSE IF backup.kind \notin {"disabled", "none"}
    THEN [raised |-> FALSE, value |-> backup, wrote |-> saveOk]
    ELSE [raised |-> FALSE, value |-> DictDoc(<<>>), wrote |-> FALSE]

\* cache_data.get("items", []) of run_update and get_cache_stats: a list and a
\* scalar have no get
HasGet(doc) == doc.kind \in {"dict", "dict_noitems"}

----------------------------------------------------------------------------
(* run_update *)

NoDec == [src |-> 0, present |-> FALSE, existing |-> NoItem, added |-> {}, removed |-> {},
          modified |-> {}, page_sig |-> <<>>, new_secs |-> <<>>, changed |-> FALSE]

AllPending == [k \in 1..NSrc |-> "pending"]
NoneFetched == [k \in 1..NSrc |-> NoHtml]

\* locals of the loop body for the source at position i
CurTag == SOURCES[i].tag
CurUrl == _fix_facebook_url(SOURCES[i].url)
CurRegion == RegionOf(SOURCES[i])
CurKey == <<CurTag, CurUrl, CurRegion>>
CurPresent == CurKey \in DOMAIN idx
CurExisting == IF CurPresent THEN cache[idx[CurKey]] ELSE NoItem
CurPlain == clean_html(html)
CurSig == compute_hash(normalize_plain(CurPlain))
CurSecs == extract_sections(html)
CurAdded == AddedIds(CurPresent, CurExisting.sections, CurSecs)
CurRemoved == RemovedIds(CurPresent, CurExisting.sections, CurSecs)
CurModified == ModifiedIds(CurPresent, CurExisting.sections, CurSecs)
CurChanged ==
    changed_here(CurAdded, CurRemoved, CurModified, CurPresent, CurExisting.hash, CurSig)

PipelineInit ==
    /\ maxItemsTotal \in 0..MaxBound
    /\ pruneEnabled \in BOOLEAN
    /\ disk \in InitialFiles
    /\ pc = "idle"
    /\ run = 0
    /\ i = 1
    /\ attempt = 0
    /\ err = FALSE
    /\ proxyRegion = "GLOBAL"
    /\ html = NoHtml
    /\ fetchRaised = {}
    /\ cache = <<>>
    /\ idx = <<>>
    /\ errors = <<>>
    /\ details = <<>>
    /\ changed_pages = 0
    /\ changed_sections_total = 0
    /\ trans_cache = <<>>
    /\ clock = 2
    /\ outcome = AllPending
    /\ fetched = NoneFetched
    /\ prevFetched = NoneFetched
    /\ replay = FALSE
    /\ dec = NoDec
    /\ pruned = <<>>
    /\ llmCalls = 0
    /\ sentDiffs = 0
    /\ sumFailed = {}

\* cache.json is an object with items, there is no backup, the scheduler starts
\* the runs
JobIdle ==
    /\ diskKind = "dict"
    /\ gist = OtherDoc("disabled")
    /\ caller = "job"
    /\ announced = "none"
    /\ saves = 0
    /\ fault = "none"

\* pipeline.py line 213 (the default), line 214 (in clock ticks)
LLM_MAX_CONCURRENCY == 2

LLM_MIN_INTERVAL == 2

\* the coroutines that call _summarize_async, the calls they make in all, the
\* last reading of the clock
NCallers == 3

MaxCalls == 3

MaxTime == 7

Callers == 1..NCallers

\* pipeline.py lines 219-221, nobody inside _summarize_async
GateIdle ==
    /\ llm_sem = LLM_MAX_CONCURRENCY
    /\ llm_lock = 0
    /\ last_llm_ts = 0
    /\ gpc = [c \in Callers |-> "idle"]
    /\ wake = [c \in Callers |-> 0]
    /\ starts = <<>>

\* no call of load_cache from outside run_update and no call of
\* _summarize_async is looked at
XIdle ==
    /\ loaded = [state |-> "idle"]
    /\ GateIdle
    /\ mono = 0
    /\ cmp = [state |-> "idle"]
    /\ diff = [state |-> "idle"]
    /\ call = [state |-> "idle"]

\* the file system is not looked at while run_update is modelled
FsIdle ==
    /\ fsTmp = 0
    /\ fsCanon = 0
    /\ inodes = <<>>
    /\ writers = <<>>
    /\ readerSaw = <<>>

Init == PipelineInit /\ FsIdle /\ JobIdle /\ XIdle

\* lines 332-347: load the cache, build the index, reset the report
Begin(prev) ==
    /\ run' = run + 1
    /\ \E saveOk \in BOOLEAN :
          LET r == load_cache(DiskDoc, gist, saveOk)
          IN  /\ disk' = IF r.wrote THEN r.value.items ELSE disk
              /\ diskKind' = IF r.wrote THEN r.value.kind ELSE diskKind
              /\ saves' = IF r.wrote THEN 1 ELSE 0
              /\ cache' = IF HasGet(r.value) THEN r.value.items ELSE <<>>
              /\ pc' = IF HasGet(r.value) THEN "fetch" ELSE "crashed"
              /\ fault' = IF HasGet(r.value) THEN "none" ELSE "load"
    /\ idx' = BuildIdx(cache')
    /\ announced' = "none"
    /\ errors' = <<>>
    /\ details' = <<>>
    /\ changed_pages' = 0
    /\ changed_sections_total' = 0
    /\ i' = 1
    /\ attempt' = 0
    /\ err' = FALSE
    /\ html' = NoHtml
    /\ fetchRaised' = {}
    /\ proxyRegion' = RegionOf(SOURCES[1])
    /\ outcome' = AllPending
    /\ prevFetched' = prev
    /\ fetched' = NoneFetched
    /\ dec' = NoDec
    /\ pruned' = <<>>
    /\ sumFailed' = {}
    /\ llmCalls' = 0
    /\ sentDiffs' = 0
    /\ UNCHANGED <<maxItemsTotal, pruneEnabled, trans_cache, clock, gist, caller, ovars>>

\* a run is started (scheduler.job, the refresh command, scripts/rebuild_cache.py)
StartRun ==
    /\ pc \in {"idle", "done", "crashed"}
    /\ ~replay
    /\ run < MaxRuns
    /\ replay' = FALSE
    /\ Begin(NoneFetched)

\* a run started right after a completed one, with the web unchanged: every fetch
\* returns what it returned in the run before
StartReplay ==
    /\ pc = "done"
    /\ ~replay
    /\ replay' = TRUE
    /\ Begin(fetched)

\* what the fetcher can hand back for the source at position i
FetcherReturns(h) == ~replay \/ prevFetched[i] = h

NextSource_skipping ==
    /\ i' = i + 2
    /\ pc' = IF i + 2 > NSrc THEN "finish" ELSE "fetch"
    /\ attempt' = 0
    /\ err' = FALSE
    /\ html' = NoHtml
    /\ proxyRegion' = IF i + 2 > NSrc THEN "GLOBAL" ELSE RegionOf(SOURCES[i + 2])

\* the end of one iteration of the for loop over SOURCES
NextSource ==
    /\ i' = i + 1
    /\ pc' = IF i + 1 > NSrc THEN "finish" ELSE "fetch"
    /\ attempt' = 0
    /\ err' = FALSE
    /\ html' = NoHtml
    /\ proxyRegion' = IF i + 1 > NSrc THEN "GLOBAL" ELSE RegionOf(SOURCES[i + 1])

\* lines 356-357: a source without tag or url is passed over
SkipSource ==
    /\ pc = "fetch"
    /\ ~SrcValid(SOURCES[i])
    /\ outcome' = [outcome EXCEPT ![i] = "skipped"]
    /\ NextSource
    /\ UNCHANGED <<maxItemsTotal, pruneEnabled, disk, run, cache, idx, errors, details,
                   changed_pages, changed_sections_total, trans_cache, clock, fetched,
                   prevFetched, replay, dec, pruned, llmCalls, sentDiffs, sumFailed,
                   fetchRaised, ovars, jvars>>

FetchFrame ==
    UNCHANGED <<maxItemsTotal, pruneEnabled, disk, run, cache, idx, details,
                changed_pages, changed_sections_total, trans_cache, clock,
                prevFetched, replay, dec, pruned, llmCalls, sentDiffs, sumFailed, ovars, jvars>>

\* lines 545-546 and 548-550: the error entry of a source, then the next source
RecordError(msg) ==
    /\ errors' = Append(errors, [tag |-> CurTag, url |-> CurUrl, region |-> CurRegion,
                                 error |-> msg])
    /\ outcome' = [outcome EXCEPT ![i] = "error"]
    /\ fetchRaised' = IF msg = "exception" THEN fetchRaised \cup {i} ELSE fetchRaised
    /\ NextSource
    /\ UNCHANGED fetched

\* a variant in which the handler of line 538 writes the error entry also when
\* html is there, and the page is processed all the same
HandOver_with_error(h, raised) ==
    /\ html' = h
    /\ fetched' = [fetched EXCEPT ![i] = h]
    /\ fetchRaised' = IF raised THEN fetchRaised \cup {i} ELSE fetchRaised
    /\ pc' = "process"
    /\ errors' = IF raised
                 THEN Append(errors, [tag |-> CurTag, url |-> CurUrl, region |-> CurRegion,
                                      error |-> "exception"])
                 ELSE errors
    /\ UNCHANGED <<i, attempt, err, proxyRegion, outcome>>

\* the HTML leaves the retry loop and goes to clean_html (line 555)
HandOver(h, raised) ==
    /\ html' = h
    /\ fetched' = [fetched EXCEPT ![i] = h]
    /\ fetchRaised' = IF raised THEN fetchRaised \cup {i} ELSE fetchRaised
    /\ pc' = "process"
    /\ UNCHANGED <<i, attempt, err, proxyRegion, errors, outcome>>

\* the for loop goes to its next attempt, or ends without break (lines 531-537, 548)
Continue(e, px) ==
    IF attempt + 1 < FETCH_RETRIES
    THEN /\ attempt' = attempt + 1
         /\ err' = e
         /\ proxyRegion' = px
         /\ UNCHANGED <<pc, i, html, fetchRaised, errors, outcome, fetched>>
    ELSE RecordError(IF e THEN "exception" ELSE "No HTML received")

\* status 200/201/202, or 400/422 with a body long enough (lines 416-434, 474)
FetchOk ==
    /\ pc = "fetch"
    /\ SrcValid(SOURCES[i])
    /\ \E d \in DocsOf(i) : FetcherReturns(d) /\ HandOver(d, FALSE)
    /\ FetchFrame

\* a block page: html is assigned before the check raises (lines 437-449); the
\* exception is no retry status, reaches line 538, and html is kept (lines 541-542)
FetchBlocked ==
    /\ pc = "fetch"
    /\ SrcValid(SOURCES[i])
    /\ i \in Blocking
    /\ FetcherReturns(DBlock)
    /\ HandOver(DBlock, TRUE)
    /\ FetchFrame

\* status 400/422 with a short body: continue (lines 426-429)
FetchShort ==
    /\ pc = "fetch"
    /\ SrcValid(SOURCES[i])
    /\ FetcherReturns(NoHtml)
    /\ Continue(err, proxyRegion)
    /\ FetchFrame

\* status 403/407 on the first attempt of an MD source: switch to the EU proxy
FetchFallback ==
    /\ pc = "fetch"
    /\ SrcValid(SOURCES[i])
    /\ FetcherReturns(NoHtml)
    /\ CurRegion = "MD" /\ FALLBACK_EU /\ attempt = 0
    /\ Continue(err, "EU")
    /\ FetchFrame

\* status 500/502/503/403/407: retried with backoff, re-raised on the last attempt
FetchRetryable ==
    /\ pc = "fetch"
    /\ SrcValid(SOURCES[i])
    /\ FetcherReturns(NoHtml)
    /\ IF attempt < FETCH_RETRIES - 1
       THEN /\ attempt' = attempt + 1
            /\ err' = TRUE
            /\ UNCHANGED <<pc, i, html, fetchRaised, errors, outcome, fetched, proxyRegion>>
       ELSE RecordError("exception")
    /\ FetchFrame

\* status 429: retried, and on the last attempt the loop is left with err = None
Fetch429 ==
    /\ pc = "fetch"
    /\ SrcValid(SOURCES[i])
    /\ FetcherReturns(NoHtml)
    /\ IF attempt < FETCH_RETRIES - 1
       THEN /\ attempt' = attempt + 1
            /\ err' = TRUE
            /\ UNCHANGED <<pc, i, html, fetchRaised, errors, outcome, fetched, proxyRegion>>
       ELSE RecordError("No HTML received")
    /\ FetchFrame

\* any other status or exception: re-raised at once (lines 529-530, 538-546)
FetchFatal ==
    /\ pc = "fetch"
    /\ SrcValid(SOURCES[i])
    /\ FetcherReturns(NoHtml)
    /\ RecordError("exception")
    /\ FetchFrame

\* a variant that appends the item whether or not the key has a position
Upsert_appending(summary) ==
    \E now \in {IF clock < MaxClock THEN clock + 1 ELSE clock} :
        /\ clock' = now
        /\ LET item == MakeItem(CurTag, CurUrl, CurRegion, summary, now, html)
           IN  /\ cache' = Append(cache, item)
               /\ idx' = [k \in DOMAIN idx \cup {CurKey} |->
                            IF k = CurKey THEN Len(cache) + 1 ELSE idx[k]]
        /\ changed_pages' = changed_pages + 1
        /\ changed_sections_total' = changed_sections_total + Cardinality(CurAdded)
                                        + Cardinality(CurModified) + Cardinality(CurRemoved)
        /\ details' = Append(details,
                             [tag |-> CurTag, url |-> CurUrl, region |-> CurRegion,
                              added |-> CurAdded, modified |-> CurModified,
                              removed |-> CurRemoved])
        /\ sentDiffs' = sentDiffs + 1
        /\ outcome' = [outcome EXCEPT ![i] = "changed"]
        /\ NextSource

\* lines 649-687: build the item, upsert it, count it, report it
Upsert(summary) ==
    \E now \in {IF clock < MaxClock THEN clock + 1 ELSE clock} :
        /\ clock' = now
        /\ LET item == MakeItem(CurTag, CurUrl, CurRegion, summary, now, html)
           IN  IF CurPresent
               THEN /\ cache' = [cache EXCEPT ![idx[CurKey]] = item]
                    /\ idx' = idx
               ELSE /\ cache' = Append(cache, item)
                    /\ idx' = idx @@ (CurKey :> Len(cache) + 1)
        /\ changed_pages' = changed_pages + 1
        /\ changed_sections_total' = changed_sections_total + Cardinality(CurAdded)
                                        + Cardinality(CurModified) + Cardinality(CurRemoved)
        /\ details' = Append(details,
                             [tag |-> CurTag, url |-> CurUrl, region |-> CurRegion,
                              added |-> CurAdded, modified |-> CurModified,
                              removed |-> CurRemoved])
        /\ sentDiffs' = sentDiffs + 1
        /\ outcome' = [outcome EXCEPT ![i] = "changed"]
        /\ NextSource

TheDec ==
    [src |-> i, present |-> CurPresent, existing |-> CurExisting, added |-> CurAdded,
     removed |-> CurRemoved, modified |-> CurModified, page_sig |-> CurSig,
     new_secs |-> CurSecs, changed |-> CurChanged]

\* lines 555-587: normalize, extract, diff, decide; an unchanged source ends here
ProcessUnchanged ==
    /\ pc = "process"
    /\ ~CurChanged
    /\ dec' = TheDec
    /\ outcome' = [outcome EXCEPT ![i] = "unchanged"]
    /\ NextSource
    /\ UNCHANGED <<maxItemsTotal, pruneEnabled, disk, run, cache, idx, errors, details,
                   changed_pages, changed_sections_total, trans_cache, clock, fetched,
                   prevFetched, replay, pruned, llmCalls, sentDiffs, sumFailed,
                   fetchRaised, ovars, jvars>>

\* lines 589-590: a changed source whose page signature has a cached summary
ProcessCached ==
    /\ pc = "process"
    /\ CurChanged
    /\ CurSig \in DOMAIN trans_cache
    /\ dec' = TheDec
    /\ Upsert(trans_cache[CurSig])
    /\ UNCHANGED <<maxItemsTotal, pruneEnabled, disk, run, errors, trans_cache, fetched,
                   prevFetched, replay, pruned, llmCalls, sumFailed, fetchRaised, ovars, jvars>>

\* lines 591-592: a changed source waits for the summarizer
ProcessAwait ==
    /\ pc = "process"
    /\ CurChanged
    /\ CurSig \notin DOMAIN trans_cache
    /\ dec' = TheDec
    /\ pc' = "summarize"
    /\ UNCHANGED <<maxItemsTotal, pruneEnabled, disk, run, i, attempt, err, proxyRegion,
                   html, fetchRaised, cache, idx, errors, details, changed_pages,
                   changed_sections_total, trans_cache, clock, outcome, fetched,
                   prevFetched, replay, pruned, llmCalls, sentDiffs, sumFailed, ovars, jvars>>

Calls(r) == IF r.called THEN 1 ELSE 0

\* every way a call of summarize_rules(plain) can end
SummarizeResults(plain) == {summarize_rules(plain, r) : r \in ChatResults}

\* lines 592-593 and on: summarize_rules returned (its own text or the fallback)
SummarizeReturn ==
    /\ pc = "summarize"
    /\ \E r \in SummarizeResults(CurPlain) :
            /\ ~r.raised
            /\ llmCalls' = llmCalls + Calls(r)
            /\ sumFailed' = IF r.failed THEN sumFailed \cup {i} ELSE sumFailed
            /\ trans_cache' = trans_cache @@ (CurSig :> r.value)
            /\ Upsert(r.value)
    /\ UNCHANGED <<maxItemsTotal, pruneEnabled, disk, run, errors, fetched, prevFetched,
                   replay, dec, pruned, fetchRaised, ovars, jvars>>

\* line 592: summarize_rules raised; nothing in run_update catches it
SummarizeRaise ==
    /\ pc = "summarize"
    /\ \E r \in SummarizeResults(CurPlain) :
            /\ r.raised
            /\ llmCalls' = llmCalls + Calls(r)
            /\ sumFailed' = sumFailed \cup {i}
    /\ pc' = "crashed"
    /\ fault' = "summarize"
    /\ UNCHANGED <<maxItemsTotal, pruneEnabled, disk, run, i, attempt, err, proxyRegion,
                   html, fetchRaised, cache, idx, errors, details, changed_pages,
                   changed_sections_total, trans_cache, clock, outcome, fetched,
                   prevFetched, replay, dec, pruned, sentDiffs, ovars,
                   diskKind, gist, caller, announced, saves>>

\* lines 689-701: prune, sort by ts descending, truncate, save
\* a variant that truncates before it prunes
EndOfRun_truncate_first(c, items) == Prune(Truncate(SortByTsDesc(c), max_cache(items)))

\* lines 689-698: prune, sort by ts descending, truncate to max_cache
EndOfRun(c, items) == Truncate(SortByTsDesc(Prune(c)), max_cache(items))

\* what the steps of lines 689-701 leave alone
FinishFrame ==
    UNCHANGED <<maxItemsTotal, pruneEnabled, run, i, attempt, err, proxyRegion, html,
                fetchRaised, idx, errors, details, changed_pages,
                changed_sections_total, trans_cache, clock, outcome, fetched,
                prevFetched, replay, dec, llmCalls, sentDiffs, sumFailed, ovars,
                caller, announced>>

\* lines 689-701 with save_cache succeeding; get_cache_stats (line 695) calls
\* load_cache, and save_cache sends the document to the gist when one is set up
Finish ==
    /\ pc = "finish"
    /\ \E saveOk \in BOOLEAN, backupOk \in BOOLEAN :
          LET r == load_cache(DiskDoc, gist, saveOk)
          IN  /\ HasGet(r.value)
              /\ pruned' = Prune(cache)
              /\ cache' = EndOfRun(cache, r.value.items)
              /\ disk' = cache'
              /\ diskKind' = "dict"
              /\ saves' = saves + (IF r.wrote THEN 2 ELSE 1)
              /\ gist' = IF gist.kind # "disabled" /\ backupOk THEN DictDoc(cache') ELSE gist
    /\ pc' = "done"
    /\ fault' = "none"
    /\ FinishFrame

\* a variant in which the exception of save_cache is caught and logged, as the one
\* of the trans_cache file is (lines 703-709), and the report is returned
FinishSaveFails_swallowed ==
    /\ pc = "finish"
    /\ pruned' = Prune(cache)
    /\ cache' = EndOfRun(cache, disk)
    /\ pc' = "done"
    /\ fault' = "save"
    /\ UNCHANGED <<disk, diskKind, saves, gist>>
    /\ FinishFrame

\* lines 700-701 with save_cache raising (storage.py lines 61-63, 68-69): the
\* temporary file cannot be written or os.replace fails; nothing catches it
FinishSaveFails ==
    /\ pc = "finish"
    /\ \E saveOk \in BOOLEAN :
          LET r == load_cache(DiskDoc, gist, saveOk)
          IN  /\ HasGet(r.value)
              /\ pruned' = Prune(cache)
              /\ cache' = EndOfRun(cache, r.value.items)
              /\ disk' = IF r.wrote THEN r.value.items ELSE disk
              /\ diskKind' = IF r.wrote THEN r.value.kind ELSE diskKind
              /\ saves' = saves + (IF r.wrote THEN 1 ELSE 0)
    /\ pc' = "crashed"
    /\ fault' = "save"
    /\ UNCHANGED gist
    /\ FinishFrame

\* scheduler.job lines 28-62: the message sent after run_update returned or raised
JobNotify ==
    /\ caller = "job"
    /\ pc \in {"done", "crashed"}
    /\ announced = "none"
    /\ announced' = IF pc = "crashed" THEN "error"
                    ELSE IF changed_pages = 0 THEN "no_changes" ELSE "changes"
    /\ UNCHANGED <<maxItemsTotal, pruneEnabled, disk, pc, run, i, attempt, err,
                   proxyRegion, html, fetchRaised, cache, idx, errors, details,
                   changed_pages, changed_sections_total, trans_cache, clock,
                   outcome, fetched, prevFetched, replay, dec, pruned, llmCalls,
                   sentDiffs, sumFailed, diskKind, gist, caller, saves, fault, ovars>>

\* tg/handlers.cmd_refresh lines 427-444: the replies after run_update returned;
\* when it raised, the handler is left and bot.error_handler reports the error
RefreshNotify ==
    /\ caller = "refresh"
    /\ pc \in {"done", "crashed"}
    /\ announced = "none"
    /\ announced' = IF pc = "crashed" THEN "error"
                    ELSE IF details = <<>> THEN "no_changes" ELSE "changes"
    /\ UNCHANGED <<maxItemsTotal, pruneEnabled, disk, pc, run, i, attempt, err,
                   proxyRegion, html, fetchRaised, cache, idx, errors, details,
                   changed_pages, changed_sections_total, trans_cache, clock,
                   outcome, fetched, prevFetched, replay, dec, pruned, llmCalls,
                   sentDiffs, sumFailed, diskKind, gist, caller, saves, fault, ovars>>

\* the steps of a run that has started
Steps ==
    \/ SkipSource
    \/ FetchOk
    \/ FetchBlocked
    \/ FetchShort
    \/ FetchFallback
    \/ FetchRetryable
    \/ Fetch429
    \/ FetchFatal
    \/ ProcessUnchanged
    \/ ProcessCached
    \/ ProcessAwait
    \/ SummarizeReturn
    \/ SummarizeRaise
    \/ Finish

Next == StartRun \/ Steps

Spec == Init /\ [][Next]_vars

\* runs, then one more run against an unchanged web
NextTwice == Next \/ StartReplay

SpecTwice == Init /\ [][NextTwice]_vars

\* the backup documents the gist can hold
GistDocs ==
    { OtherDoc("none"), DictDoc(<<ItOld, ItWa1>>), ListDoc(<<ItWa1>>),
      OtherDoc("dict_noitems"), OtherDoc("scalar") }

\* a process started by the scheduler or driven by the refresh command, with
\* cache.json present, absent or unreadable and a backup gist set up or not
InitJob ==
    /\ PipelineInit
    /\ FsIdle
    /\ XIdle
    /\ maxItemsTotal = 0
    /\ pruneEnabled
    /\ caller \in {"job", "refresh"}
    /\ announced = "none"
    /\ saves = 0
    /\ fault = "none"
    /\ \/ diskKind = "dict" /\ disk # <<ItWa1, ItWa2>> /\ gist = OtherDoc("disabled")
       \/ diskKind = "missing" /\ disk = <<>> /\ gist \in GistDocs
       \/ diskKind = "garbage" /\ disk = <<>> /\ gist = DictDoc(<<ItOld, ItWa1>>)

\* scheduler.job line 29 / cmd_refresh line 429: run_update is awaited, and the
\* caller has sent its message for the run before it starts another
StartJob ==
    /\ pc = "idle" \/ (pc \in {"done", "crashed"} /\ announced # "none")
    /\ ~replay
    /\ run < MaxRuns
    /\ replay' = FALSE
    /\ Begin(NoneFetched)

NextJob == StartJob \/ Steps \/ FinishSaveFails \/ JobNotify \/ RefreshNotify

SpecJob == InitJob /\ [][NextJob]_vars

----------------------------------------------------------------------------
(* storage.get_items: load_cache called on whatever cache.json and the gist hold *)

FileDocs ==
    {OtherDoc(k) : k \in {"missing", "garbage", "scalar", "dict_noitems"}}
    \cup {ListDoc(its) : its \in {<<>>, <<ItOld, ItWa1>>}}
    \cup {DictDoc(its) : its \in InitialFiles}

InitLoad ==
    /\ PipelineInit
    /\ maxItemsTotal = 0
    /\ pruneEnabled
    /\ \E d \in FileDocs : diskKind = d.kind /\ disk = d.items
    /\ gist \in GistDocs \cup {OtherDoc("disabled")}
    /\ caller = "job"
    /\ announced = "none"
    /\ saves = 0
    /\ fault = "none"
    /\ XIdle
    /\ FsIdle

\* storage.py lines 74-75, with the file write of the restore path (line 48)
GetItems ==
    /\ \E saveOk \in BOOLEAN :
          LET r == load_cache(DiskDoc, gist, saveOk)
          IN  /\ loaded' = [state |-> "returned", file |-> DiskDoc, backup |-> gist,
                            result |-> r]
              /\ disk' = IF r.wrote THEN r.value.items ELSE disk
              /\ diskKind' = IF r.wrote THEN r.value.kind ELSE diskKind
    /\ UNCHANGED <<maxItemsTotal, pruneEnabled, pc, run, i, attempt, err,
                   proxyRegion, html, fetchRaised, cache, idx, errors, details,
                   changed_pages, changed_sections_total, trans_cache, clock,
                   outcome, fetched, prevFetched, replay, dec, pruned, llmCalls,
                   sentDiffs, sumFailed, gist, caller, announced, saves, fault, fvars,
                   gvars, dvars>>

NextLoad == GetItems

SpecLoad == InitLoad /\ [][NextLoad]_vars

----------------------------------------------------------------------------
(* pipeline._summarize_async, lines 276-285: coroutines of one event loop    *)
(* passing the semaphore, the lock and the pause before summarize_rules is   *)
(* handed to a thread.  A coroutine runs without interruption between two    *)
(* awaits; the clock may advance at any moment.                              *)

InitGate ==
    /\ PipelineInit
    /\ maxItemsTotal = 0
    /\ pruneEnabled
    /\ JobIdle
    /\ FsIdle
    /\ loaded = [state |-> "idle"]
    /\ GateIdle
    /\ mono \in 0..LLM_MIN_INTERVAL
    /\ cmp = [state |-> "idle"]
    /\ diff = [state |-> "idle"]
    /\ call = [state |-> "idle"]

GateFrame == UNCHANGED <<pvars, fvars, lvars, dvars>>

\* time.monotonic() moves on
Tick ==
    /\ mono < MaxTime
    /\ mono' = mono + 1
    /\ UNCHANGED <<llm_sem, llm_lock, last_llm_ts, gpc, wake, starts>>
    /\ GateFrame

\* the calls of _summarize_async made so far
Entered == Len(starts) + Cardinality({d \in Callers : gpc[d] \in {"sem", "lock"}})

\* line 278: async with _llm_sem, entered when a permit is free
EnterSem_unguarded(c) ==
    /\ gpc[c] = "idle"
    /\ Entered < MaxCalls
    /\ llm_sem' = llm_sem - 1
    /\ gpc' = [gpc EXCEPT ![c] = "sem"]
    /\ UNCHANGED <<llm_lock, last_llm_ts, mono, wake, starts>>
    /\ GateFrame

EnterSem(c) ==
    /\ gpc[c] = "idle"
    /\ Entered < MaxCalls
    /\ llm_sem > 0
    /\ llm_sem' = llm_sem - 1
    /\ gpc' = [gpc EXCEPT ![c] = "sem"]
    /\ UNCHANGED <<llm_lock, last_llm_ts, mono, wake, starts>>
    /\ GateFrame

\* lines 279-283: async with _llm_lock, entered when the lock is free; the
\* clock and _last_llm_ts are read, the pause is computed and begun
EnterLock(c) ==
    /\ gpc[c] = "sem"
    /\ llm_lock = 0
    /\ llm_lock' = c
    /\ LET now == mono
           wait == LLM_MIN_INTERVAL - (now - last_llm_ts)
       IN  /\ wake' = [wake EXCEPT ![c] = IF wait > 0 THEN now + wait ELSE now]
           /\ gpc' = [gpc EXCEPT ![c] = "lock"]
    /\ UNCHANGED <<llm_sem, last_llm_ts, mono, starts>>
    /\ GateFrame

\* lines 283-285: the pause is over (asyncio.sleep returns no earlier than
\* asked), _last_llm_ts is written, the lock is left and summarize_rules is
\* handed to a thread, all without an await in between
Dispatch_no_pause(c) ==
    /\ gpc[c] = "lock"
    /\ llm_lock = c
    /\ last_llm_ts' = mono
    /\ llm_lock' = 0
    /\ starts' = Append(starts, mono)
    /\ gpc' = [gpc EXCEPT ![c] = "running"]
    /\ UNCHANGED <<llm_sem, mono, wake>>
    /\ GateFrame

Dispatch(c) ==
    /\ gpc[c] = "lock"
    /\ llm_lock = c
    /\ mono >= wake[c]
    /\ last_llm_ts' = mono
    /\ llm_lock' = 0
    /\ starts' = Append(starts, mono)
    /\ gpc' = [gpc EXCEPT ![c] = "running"]
    /\ UNCHANGED <<llm_sem, mono, wake>>
    /\ GateFrame

\* line 285 and the end of line 278: summarize_rules has returned or raised,
\* the permit is given back
Leave(c) ==
    /\ gpc[c] = "running"
    /\ llm_sem' = llm_sem + 1
    /\ gpc' = [gpc EXCEPT ![c] = "idle"]
    /\ UNCHANGED <<llm_lock, last_llm_ts, mono, wake, starts>>
    /\ GateFrame

NextGate ==
    \/ Tick
    \/ \E c \in Callers : EnterSem(c)
    \/ \E c \in Callers : EnterLock(c)
    \/ \E c \in Callers : Dispatch(c)
    \/ \E c \in Callers : Leave(c)

SpecGate == InitGate /\ [][NextGate]_vars

----------------------------------------------------------------------------
(* run_update lines 555-587 on two fetches of one page that differ in nothing *)
(* but the date of an update stamp                                            *)

StampBase == <<"x.", "y.">>

InsertAt(seq, n, t) == SubSeq(seq, 1, n) \o <<t>> \o SubSeq(seq, n + 1, Len(seq))

\* a page "Intro" with the stamp t after n of its text nodes: before the
\* heading (n = 0) the stamp belongs to no section, after it to the section
StampedDoc(t, n) ==
    [kind |-> "page",
     plain |-> InsertAt(<<"Intro">> \o StampBase, n, t),
     secs |-> <<Sec("Intro", IF n = 0 THEN StampBase ELSE InsertAt(StampBase, n - 1, t))>>]

InitStamp ==
    /\ PipelineInit
    /\ maxItemsTotal = 0
    /\ pruneEnabled
    /\ JobIdle
    /\ FsIdle
    /\ loaded = [state |-> "idle"]
    /\ GateIdle
    /\ mono = 0
    /\ \E f \in DOMAIN StampFormats, n \in 0..(Len(StampBase) + 1) :
          \E t1, t2 \in StampFormats[f] :
              cmp = [state |-> "input", format |-> f,
                     first |-> StampedDoc(t1, n), second |-> StampedDoc(t2, n)]
    /\ diff = [state |-> "idle"]
    /\ call = [state |-> "idle"]

\* the cache item built from the first fetch, then the decision on the second
DetectStamped ==
    /\ cmp.state = "input"
    /\ LET existing == MakeItem("wa", SOURCES[1].url, "GLOBAL", <<>>, 1, cmp.first)
           page_sig == compute_hash(normalize_plain(clean_html(cmp.second)))
           new_secs == extract_sections(cmp.second)
           added == AddedIds(TRUE, existing.sections, new_secs)
           removed == RemovedIds(TRUE, existing.sections, new_secs)
           modified == ModifiedIds(TRUE, existing.sections, new_secs)
       IN  cmp' = [state |-> "compared", format |-> cmp.format,
                   first |-> cmp.first, second |-> cmp.second,
                   existing |-> existing, page_sig |-> page_sig, new_secs |-> new_secs,
                   changed |-> changed_here(added, removed, modified, TRUE,
                                            existing.hash, page_sig)]
    /\ UNCHANGED <<pvars, fvars, lvars, gvars, diff, call>>

NextStamp == DetectStamped

SpecStamp == InitStamp /\ [][NextStamp]_vars

\* two fetches of one page with the same stamp that differ in the sentences on
\* the lines after the stamp; the stamp stands in the section "Intro" after the
\* sentences of `before`, or (top) above the heading
LaterTexts == {<<"y.">>, <<"z.">>, <<"y.", "z.">>}

SensDoc(t, top, before, later) ==
    [kind |-> "page",
     plain |-> IF top THEN <<t, "Intro">> \o before \o later
               ELSE <<"Intro">> \o before \o <<t>> \o later,
     secs |-> <<Sec("Intro", IF top THEN before \o later ELSE before \o <<t>> \o later)>>]

InitSens ==
    /\ PipelineInit
    /\ maxItemsTotal = 0
    /\ pruneEnabled
    /\ JobIdle
    /\ FsIdle
    /\ loaded = [state |-> "idle"]
    /\ GateIdle
    /\ mono = 0
    /\ \E f \in DOMAIN StampFormats, top \in BOOLEAN, before \in {<<>>, <<"x.">>} :
          \E t \in StampFormats[f], l1, l2 \in LaterTexts :
              /\ l1 # l2
              /\ cmp = [state |-> "input", format |-> f,
                        first |-> SensDoc(t, top, before, l1),
                        second |-> SensDoc(t, top, before, l2)]
    /\ diff = [state |-> "idle"]
    /\ call = [state |-> "idle"]

SpecSens == InitSens /\ [][DetectStamped]_vars

----------------------------------------------------------------------------
(* pipeline._pair_changed_sentences and the global_diff of run_update lines  *)
(* 597-609.  The sentences:                                                  *)
(*   F   "Ads must disclose funding."                                        *)
(*   FS  "Ads must disclose funding source."                                 *)
(*   C   "Contact us for help."                                              *)
(*   N   "12345"                                                             *)
(*   L   a sentence of more than 800 characters                              *)

Sentences == {"F", "FS", "C", "N", "L"}

\* the longest sentence list looked at
MaxSents == 2

SentLists == UNION {[1..n -> Sentences] : n \in 0..MaxSents}

\* SequenceMatcher(None, a, b).ratio(), in thousandths
Ratio ==
    [F  |-> [F |-> 1000, FS |-> 881, C |-> 217, N |-> 0, L |-> 49],
     FS |-> [F |-> 881, FS |-> 1000, C |-> 189, N |-> 0, L |-> 49],
     C  |-> [F |-> 261, FS |-> 340, C |-> 1000, N |-> 0, L |-> 11],
     N  |-> [F |-> 0, FS |-> 0, C |-> 0, N |-> 1000, L |-> 0],
     L  |-> [F |-> 49, FS |-> 49, C |-> 9, N |-> 0, L |-> 1000]]

\* _clip_line: a sentence within the limit is left as it is, a longer one is
\* cut and ends with the ellipsis
_clip_line(t) == IF t = "L" THEN "L-cut" ELSE t

Elems(seq) == {seq[k] : k \in 1..Len(seq)}

\* a variant in which the last of the sentences of the highest ratio wins
BestJ_last_wins(s_old, new_only, used) ==
    LET free == {j \in 1..Len(new_only) : j \notin used /\ Ratio[s_old][new_only[j]] > 0}
        top == {j \in free : \A m \in free :
                    Ratio[s_old][new_only[m]] <= Ratio[s_old][new_only[j]]}
    IN  IF free = {} THEN 0 ELSE CHOOSE j \in top : \A m \in top : j >= m

\* lines 249-258: the unused new-only sentence of the highest ratio above 0, the
\* first of them on a tie; 0 stands for best_j = -1
BestJ(s_old, new_only, used) ==
    LET free == {j \in 1..Len(new_only) : j \notin used /\ Ratio[s_old][new_only[j]] > 0}
        top == {j \in free : \A m \in free :
                    Ratio[s_old][new_only[m]] <= Ratio[s_old][new_only[j]]}
    IN  IF free = {} THEN 0 ELSE CHOOSE j \in top : \A m \in top : j <= m

\* lines 248-261: the loop over old_only
RECURSIVE PairLoop(_, _, _, _, _, _)
PairLoop(old_only, new_only, threshold, k, used, matched_pairs) ==
    IF k > Len(old_only) THEN matched_pairs
    ELSE LET best_j == BestJ(old_only[k], new_only, used)
             best_score == IF best_j = 0 THEN 0 ELSE Ratio[old_only[k]][new_only[best_j]]
         IN  IF best_score > threshold /\ best_j > 0
             THEN PairLoop(old_only, new_only, threshold, k + 1, used \cup {best_j},
                           Append(matched_pairs, <<old_only[k], new_only[best_j]>>))
             ELSE PairLoop(old_only, new_only, threshold, k + 1, used, matched_pairs)

\* lines 263-267: what is left of old_only and new_only
PairResult(old_only, new_only, matched_pairs) ==
    LET paired_old == {matched_pairs[k][1] : k \in 1..Len(matched_pairs)}
        paired_new == {matched_pairs[k][2] : k \in 1..Len(matched_pairs)}
    IN  [pairs |-> matched_pairs,
         old_only_final |-> SelectSeq(old_only, LAMBDA t : t \notin paired_old),
         new_only_final |-> SelectSeq(new_only, LAMBDA t : t \notin paired_new)]

\* a variant that leaves the sentences common to both lists in old_only and new_only
_pair_changed_sentences_keep_same(old_sents, new_sents, threshold) ==
    PairResult(old_sents, new_sents, PairLoop(old_sents, new_sents, threshold, 1, {}, <<>>))

_pair_changed_sentences(old_sents, new_sents, threshold) ==
    LET same == Elems(old_sents) \cap Elems(new_sents)
        old_only == SelectSeq(old_sents, LAMBDA t : t \notin same)
        new_only == SelectSeq(new_sents, LAMBDA t : t \notin same)
    IN  PairResult(old_only, new_only, PairLoop(old_only, new_only, threshold, 1, {}, <<>>))

\* lines 601-609
global_diff(old_sents, new_sents) ==
    LET r == _pair_changed_sentences(old_sents, new_sents, 0)
    IN  [changed |-> [k \in 1..Len(r.pairs) |->
                        [was |-> _clip_line(r.pairs[k][1]), now |-> _clip_line(r.pairs[k][2])]],
         removed |-> [k \in 1..Len(r.old_only_final) |-> _clip_line(r.old_only_final[k])],
         added |-> [k \in 1..Len(r.new_only_final) |-> _clip_line(r.new_only_final[k])]]

InitPair ==
    /\ PipelineInit
    /\ maxItemsTotal = 0
    /\ pruneEnabled
    /\ disk = <<>>
    /\ JobIdle
    /\ FsIdle
    /\ loaded = [state |-> "idle"]
    /\ GateIdle
    /\ mono = 0
    /\ cmp = [state |-> "idle"]
    /\ call = [state |-> "idle"]
    /\ \E o, n \in SentLists : diff = [state |-> "input", old |-> o, new |-> n]

DiffSentences ==
    /\ diff.state = "input"
    /\ diff' = [state |-> "done", old |-> diff.old, new |-> diff.new,
                out |-> global_diff(diff.old, diff.new)]
    /\ UNCHANGED <<pvars, fvars, lvars, gvars, cmp, call>>

NextPair == DiffSentences

SpecPair == InitPair /\ [][NextPair]_vars

----------------------------------------------------------------------------
(* Helper functions of the program, each applied to one argument *)

\* nothing but the helper is looked at
PureInit ==
    /\ PipelineInit
    /\ maxItemsTotal = 0
    /\ pruneEnabled
    /\ disk = <<>>
    /\ JobIdle
    /\ FsIdle
    /\ loaded = [state |-> "idle"]
    /\ GateIdle
    /\ mono = 0
    /\ cmp = [state |-> "idle"]
    /\ diff = [state |-> "idle"]

PureFrame == UNCHANGED <<pvars, fvars, lvars, gvars, cmp, diff>>

\* the pieces a URL is made of, and the longest URL looked at
UrlTokens == {"facebook.com", "about.fb.com", "metastatus.com", "/p", "?", "a=1",
              "_fb_noscript=1"}

MaxUrlLen == 3

Urls == UNION {[1..n -> UrlTokens] : n \in 1..MaxUrlLen}

InitUrl ==
    /\ PureInit
    /\ \E u \in Urls : call = [state |-> "input", fn |-> "_fix_facebook_url", arg |-> u]

\* pipeline.py line 360, and the same call on its result
FixUrl ==
    /\ call.state = "input"
    /\ call.fn = "_fix_facebook_url"
    /\ call' = [state |-> "done", fn |-> call.fn, arg |-> call.arg,
                out |-> _fix_facebook_url(call.arg),
                again |-> _fix_facebook_url(_fix_facebook_url(call.arg))]
    /\ PureFrame

SpecUrl == InitUrl /\ [][FixUrl]_vars

----------------------------------------------------------------------------
(* smart_formatter.group_changes_by_region *)

\* the details looked at: an entry of the report with its region ("NONE": the
\* entry has no region), and the longest report
Details == [n : {1, 2}, region : {"NONE", "GLOBAL", "EU", "MD"}]

MaxDetails == 3

DetailLists == UNION {[1..n -> Details] : n \in 0..MaxDetails}

\* a variant that starts the list of the region anew with every entry
GroupOne_restart(grouped, detail) ==
    LET region == RegionOf(detail)
    IN  [r \in DOMAIN grouped \cup {region} |->
            IF r = region THEN <<detail>> ELSE grouped[r]]

\* lines 321-325: the entry is appended to the list of its region
GroupOne(grouped, detail) ==
    LET region == RegionOf(detail)
        base == IF region \in DOMAIN grouped THEN grouped[region] ELSE <<>>
    IN  [r \in DOMAIN grouped \cup {region} |->
            IF r = region THEN Append(base, detail) ELSE grouped[r]]

RECURSIVE GroupFrom(_, _, _)
GroupFrom(ds, k, grouped) ==
    IF k > Len(ds) THEN grouped
    ELSE GroupFrom(ds, k + 1, GroupOne(grouped, ds[k]))

\* grouped = {} (line 317), then the loop of lines 319-325
group_changes_by_region(ds) == GroupFrom(ds, 1, <<>>)

InitGroup ==
    /\ PureInit
    /\ \E ds \in DetailLists :
          call = [state |-> "input", fn |-> "group_changes_by_region", arg |-> ds]

GroupDetails ==
    /\ call.state = "input"
    /\ call.fn = "group_changes_by_region"
    /\ call' = [state |-> "done", fn |-> call.fn, arg |-> call.arg,
                out |-> group_changes_by_region(call.arg)]
    /\ PureFrame

SpecGroup == InitGroup /\ [][GroupDetails]_vars

----------------------------------------------------------------------------
(* pipeline._pair_changed_sentences, the loop of lines 248-261 taken one     *)
(* old-only sentence at a time; picks[k] is the index paired with the k-th   *)
(* old-only sentence, 0 when it found no partner                             *)

\* the thresholds looked at, in thousandths; run_update passes 0.0
Thresholds == {0, 200}

InitGreedy ==
    /\ PureInit
    /\ \E o, n \in SentLists, th \in Thresholds :
          LET same == Elems(o) \cap Elems(n)
          IN  call = [state |-> "pairing", fn |-> "_pair_changed_sentences",
                      old |-> o, new |-> n, threshold |-> th,
                      old_only |-> SelectSeq(o, LAMBDA t : t \notin same),
                      new_only |-> SelectSeq(n, LAMBDA t : t \notin same),
                      k |-> 1, used |-> {}, picks |-> <<>>, out |-> <<>>]

\* lines 249-261 for the old-only sentence at position k
PairStep ==
    /\ call.state = "pairing"
    /\ call.k <= Len(call.old_only)
    /\ LET s_old == call.old_only[call.k]
           best_j == BestJ(s_old, call.new_only, call.used)
           best_score == IF best_j = 0 THEN 0 ELSE Ratio[s_old][call.new_only[best_j]]
           accept == best_score > call.threshold /\ best_j > 0
       IN  call' = [call EXCEPT !.k = call.k + 1,
                                !.used = IF accept THEN call.used \cup {best_j}
                                         ELSE call.used,
                                !.picks = Append(call.picks, IF accept THEN best_j ELSE 0)]
    /\ PureFrame

\* lines 263-267: the loop is over, the pairs and the leftovers are returned
PairReturn ==
    /\ call.state = "pairing"
    /\ call.k > Len(call.old_only)
    /\ LET hits == SelectSeq([k \in 1..Len(call.picks) |-> k],
                             LAMBDA k : call.picks[k] # 0)
           matched_pairs == [h \in 1..Len(hits) |->
                                <<call.old_only[hits[h]],
                                  call.new_only[call.picks[hits[h]]]>>]
       IN  call' = [call EXCEPT !.state = "done",
                                !.out = PairResult(call.old_only, call.new_only,
                                                   matched_pairs)]
    /\ PureFrame

NextGreedy == PairStep \/ PairReturn

SpecGreedy == InitGreedy /\ [][NextGreedy]_vars

----------------------------------------------------------------------------
(* pipeline._split_sentences on texts spelled out character by character:    *)
(* "x" a letter, "." one of . ! ?, " " a blank, "nl" a newline, "-" one of    *)
(* the list marks that line 233 trims                                         *)

Chars == {"x", ".", " ", "nl", "-"}

\* the longest text looked at
MaxText == 6

Texts == UNION {[1..n -> Chars] : n \in 0..MaxText}

\* \s
White == {" ", "nl"}

\* the characters p.strip(" -–—• \t") removes
Trimmed == {" ", "-"}

\* str.strip(chars): the stretch between the first and the last character
\* that is not in chars
StripChars(t, chars) ==
    LET keep == {n \in 1..Len(t) : t[n] \notin chars}
    IN  IF keep = {} THEN <<>>
        ELSE SubSeq(t, CHOOSE a \in keep : \A b \in keep : a <= b, SetMax(keep))

\* re.sub(r"\s+", " ", t), line 229
RECURSIVE CollapseWhite(_, _, _)
CollapseWhite(t, n, acc) ==
    IF n > Len(t) THEN acc
    ELSE IF t[n] \in White
         THEN IF n > 1 /\ t[n - 1] \in White
              THEN CollapseWhite(t, n + 1, acc)
              ELSE CollapseWhite(t, n + 1, Append(acc, " "))
         ELSE CollapseWhite(t, n + 1, Append(acc, t[n]))

\* re.split(_SENT_SPLIT_RE, t), line 230: whitespace that follows ".", "!", "?"
\* or a newline begins a cut, which takes in the whitespace after it; parts
\* holds the finished parts, cur the part being read, cutting tells that the
\* character before was taken by a cut
RECURSIVE SplitAt(_, _, _, _, _)
SplitAt(t, n, parts, cur, cutting) ==
    IF n > Len(t) THEN Append(parts, cur)
    ELSE IF cutting /\ t[n] \in White
         THEN SplitAt(t, n + 1, parts, cur, TRUE)
         ELSE IF t[n] \in White /\ n > 1 /\ t[n - 1] \in {".", "nl"}
              THEN SplitAt(t, n + 1, Append(parts, cur), <<>>, TRUE)
              ELSE SplitAt(t, n + 1, parts, Append(cur, t[n]), FALSE)

\* lines 226-236
_split_sentences(text) ==
    LET t0 == StripChars(text, White)
        t == CollapseWhite(t0, 1, <<>>)
        parts == SplitAt(t, 1, <<>>, <<>>, FALSE)
        trimmed == [n \in 1..Len(parts) |-> StripChars(parts[n], Trimmed)]
    IN  IF t0 = <<>> THEN <<>> ELSE SelectSeq(trimmed, LAMBDA q : Len(q) >= 2)

InitSplit ==
    /\ PureInit
    /\ \E t \in Texts : call = [state |-> "input", fn |-> "_split_sentences", arg |-> t]

SplitText ==
    /\ call.state = "input"
    /\ call.fn = "_split_sentences"
    /\ call' = [state |-> "done", fn |-> call.fn, arg |-> call.arg,
                out |-> _split_sentences(call.arg)]
    /\ PureFrame

SpecSplit == InitSplit /\ [][SplitText]_vars

----------------------------------------------------------------------------
(* run_update lines 560-577 and 619-647: the sections that stand for an id   *)
(* in the section diff of a changed page                                     *)

\* the sections looked at (the headings "Intro" and "INTRO" have one id), and
\* the most sections of a page
SecChoices == {Sec(t, b) : t \in {"Intro", "INTRO", "Fees"}, b \in {<<"x.">>, <<"y.">>}}

MaxSecs == 2

SecLists == UNION {[1..n -> SecChoices] : n \in 0..MaxSecs}

PageOf(secs) == [kind |-> "page", plain |-> <<"a.">>, secs |-> secs]

\* next((s for s in existing["sections"] if s.get("id") == sid), ...)
FirstWithId(sections, sid) ==
    sections[CHOOSE k \in 1..Len(sections) :
                /\ sections[k].id = sid
                /\ \A m \in 1..(k - 1) : sections[m].id # sid]

\* what lines 619-647 read for each removed and each modified id
section_diffs(old_sections, sections_new) ==
    LET sec_map_new == SecMap(sections_new)
    IN  [removed |-> [sid \in RemovedIds(TRUE, old_sections, sections_new) |->
                        FirstWithId(old_sections, sid).title],
         changed |-> [sid \in ModifiedIds(TRUE, old_sections, sections_new) |->
                        [old_s |-> FirstWithId(old_sections, sid),
                         new_s |-> sec_map_new[sid]]]]

InitSecDiff ==
    /\ PureInit
    /\ \E o, n \in SecLists :
          call = [state |-> "input", fn |-> "section_diffs",
                  old_sections |-> extract_sections(PageOf(o)),
                  sections_new |-> extract_sections(PageOf(n))]

DiffSections ==
    /\ call.state = "input"
    /\ call.fn = "section_diffs"
    /\ call' = [state |-> "done", fn |-> call.fn,
                old_sections |-> call.old_sections, sections_new |-> call.sections_new,
                out |-> section_diffs(call.old_sections, call.sections_new)]
    /\ PureFrame

SpecSecDiff == InitSecDiff /\ [][DiffSections]_vars

----------------------------------------------------------------------------
(* summarize.extract_sections, lines 76-117, on the h2/h3/p/li nodes of a     *)
(* page in document order (no node inside another)                           *)

\* the nodes looked at: headings, one without text and one without a letter
\* or digit (its slug is empty), and paragraphs,
\* one of them with a text of one character; the most nodes of a page
Nodes == [tag : {"h2"}, text : {"Intro", "Fees", "!!", ""}]
            \cup [tag : {"p"}, text : {"x.", "y.", "-"}]

MaxNodes == 4

NodeLists == UNION {[1..n -> Nodes] : n \in 0..MaxNodes}

\* len(txt) >= 2, line 112
LongEnough(txt) == txt # "-"

\* the state of the loop: sections emitted, current_title ("": None), current_buf
Flushed(st) ==
    IF st.current_title = "" THEN st
    ELSE [sections |-> Append(st.sections, Sec(st.current_title, st.current_buf)),
          current_title |-> "", current_buf |-> <<>>]

\* a variant in which a heading without text leaves the section before it open
NodeStep_keeps_open(st, node) ==
    IF node.tag = "h2"
    THEN IF node.text = "" THEN st
         ELSE [Flushed(st) EXCEPT !.current_title = node.text, !.current_buf = <<>>]
    ELSE IF st.current_title # "" /\ LongEnough(node.text)
         THEN [st EXCEPT !.current_buf = Append(st.current_buf, node.text)]
         ELSE st

\* lines 100-113: one node of the loop
NodeStep(st, node) ==
    IF node.tag = "h2"
    THEN LET fl == Flushed(st)
         IN  IF node.text # ""
             THEN [fl EXCEPT !.current_title = node.text, !.current_buf = <<>>]
             ELSE fl
    ELSE IF st.current_title # "" /\ LongEnough(node.text)
         THEN [st EXCEPT !.current_buf = Append(st.current_buf, node.text)]
         ELSE st

RECURSIVE NodesFrom(_, _, _)
NodesFrom(nodes, k, st) ==
    IF k > Len(nodes) THEN Flushed(st).sections
    ELSE NodesFrom(nodes, k + 1, NodeStep(st, nodes[k]))

\* the page with these nodes, as the documents above are written
ParsedPage(nodes) ==
    PageOf(NodesFrom(nodes, 1, [sections |-> <<>>, current_title |-> "",
                                current_buf |-> <<>>]))

InitExtract ==
    /\ PureInit
    /\ \E ns \in NodeLists : call = [state |-> "input", fn |-> "extract_sections", arg |-> ns]

ExtractNodes ==
    /\ call.state = "input"
    /\ call.fn = "extract_sections"
    /\ call' = [state |-> "done", fn |-> call.fn, arg |-> call.arg,
                out |-> extract_sections(ParsedPage(call.arg))]
    /\ PureFrame

SpecExtract == InitExtract /\ [][ExtractNodes]_vars

----------------------------------------------------------------------------
(* pipeline.run_update lines 589-593 in the runs of one process: the runs of   *)
(* the scheduler job and of the refresh command share the dict trans_cache,   *)
(* and a run gives up the event loop while it awaits _summarize_async        *)

Runners == {"job", "refresh"}

\* the texts of the changed pages, and how many changed sources a runner meets
ChangedPlains == {<<"a.">>, <<"c.">>}

MaxChanged == 2

SigOf(plain) == compute_hash(normalize_plain(plain))

InitSummary ==
    /\ PureInit
    /\ call = [state |-> "runs", fn |-> "run_update",
               at |-> [r \in Runners |-> "loop"],
               plain |-> [r \in Runners |-> <<>>],
               met |-> [r \in Runners |-> 0],
               summary |-> [r \in Runners |-> <<>>],
               invoked |-> [p \in ChangedPlains |-> 0]]

SummaryFrame ==
    UNCHANGED <<maxItemsTotal, pruneEnabled, disk, pc, run, i, attempt, err,
                proxyRegion, html, fetchRaised, cache, idx, errors, details,
                changed_pages, changed_sections_total, clock, outcome, fetched,
                prevFetched, replay, dec, pruned, llmCalls, sentDiffs, sumFailed,
                diskKind, gist, caller, announced, saves, fault,
                fvars, lvars, gvars, cmp, diff>>

\* lines 589-590: the signature of the changed page has a summary
SummaryCached(r) ==
    /\ call.fn = "run_update"
    /\ call.at[r] = "loop"
    /\ call.met[r] < MaxChanged
    /\ \E p \in ChangedPlains :
          /\ SigOf(p) \in DOMAIN trans_cache
          /\ call' = [call EXCEPT !.plain[r] = p, !.met[r] = @ + 1,
                                  !.summary[r] = trans_cache[SigOf(p)]]
    /\ UNCHANGED trans_cache
    /\ SummaryFrame

\* lines 591-592: it has none, _summarize_async is awaited
SummaryAwait(r) ==
    /\ call.fn = "run_update"
    /\ call.at[r] = "loop"
    /\ call.met[r] < MaxChanged
    /\ \E p \in ChangedPlains :
          /\ SigOf(p) \notin DOMAIN trans_cache
          /\ call' = [call EXCEPT !.plain[r] = p, !.met[r] = @ + 1, !.at[r] = "await",
                                  !.invoked[p] = @ + 1]
    /\ UNCHANGED trans_cache
    /\ SummaryFrame

\* lines 592-593: the summarizer returned, the summary is recorded
SummaryReturn(r) ==
    /\ call.fn = "run_update"
    /\ call.at[r] = "await"
    /\ \E res \in SummarizeResults(call.plain[r]) :
          /\ ~res.raised
          /\ trans_cache' = [s \in DOMAIN trans_cache \cup {SigOf(call.plain[r])} |->
                                IF s = SigOf(call.plain[r]) THEN res.value
                                ELSE trans_cache[s]]
          /\ call' = [call EXCEPT !.at[r] = "loop", !.summary[r] = res.value]
    /\ SummaryFrame

\* line 592: the summarizer raised, the run is over and the runner's next run
\* starts from the top
SummaryRaise(r) ==
    /\ call.fn = "run_update"
    /\ call.at[r] = "await"
    /\ \E res \in SummarizeResults(call.plain[r]) : res.raised
    /\ call' = [call EXCEPT !.at[r] = "loop"]
    /\ UNCHANGED trans_cache
    /\ SummaryFrame

NextSummary ==
    \E r \in Runners :
        SummaryCached(r) \/ SummaryAwait(r) \/ SummaryReturn(r) \/ SummaryRaise(r)

SpecSummary == InitSummary /\ [][NextSummary]_vars

----------------------------------------------------------------------------
(* pipeline._clip_line(s, limit), lines 269-273, on strings of characters;     *)
(* run_update calls it with the default limit of 800                          *)

ClipChars == {"x", " ", "nl"}

\* the longest string and the largest limit looked at
MaxClip == 5
MaxLimit == 3

ClipInputs == UNION {[1..n -> ClipChars] : n \in 0..MaxClip}

\* str.rstrip()
RStrip(t) == SubSeq(t, 1, SetMax({0} \cup {n \in 1..Len(t) : t[n] \notin White}))

\* a variant that keeps limit characters before the ellipsis
_clip_line_limit_keeps_all(s, limit) ==
    LET t == StripChars(s, White)
    IN  IF Len(t) <= limit THEN t
        ELSE Append(RStrip(SubSeq(t, 1, limit)), "...")

\* lines 270-273; "..." stands for the one character U+2026
_clip_line_limit(s, limit) ==
    LET t == StripChars(s, White)
    IN  IF Len(t) <= limit THEN t
        ELSE Append(RStrip(SubSeq(t, 1, limit - 1)), "...")

InitClip ==
    /\ PureInit
    /\ \E s \in ClipInputs, limit \in 1..MaxLimit :
          call = [state |-> "input", fn |-> "_clip_line", arg |-> s, limit |-> limit]

ClipLine ==
    /\ call.state = "input"
    /\ call.fn = "_clip_line"
    /\ call' = [state |-> "done", fn |-> call.fn, arg |-> call.arg, limit |-> call.limit,
                out |-> _clip_line_limit(call.arg, call.limit)]
    /\ PureFrame

SpecClip == InitClip /\ [][ClipLine]_vars

----------------------------------------------------------------------------
(* Two invocations of pipeline.run_update that overlap in one process: the     *)
(* scheduler job and cmd_refresh.  Each loads cache.json at its start (line   *)
(* 335), works on its own list, and saves that list at its end (line 701);    *)
(* the event loop switches between them at the awaits of a source.            *)

OverlapFrame ==
    UNCHANGED <<maxItemsTotal, pruneEnabled, pc, run, i, attempt, err,
                proxyRegion, html, fetchRaised, cache, idx, errors, details,
                changed_pages, changed_sections_total, outcome, fetched,
                prevFetched, replay, dec, pruned, llmCalls, sentDiffs, sumFailed,
                diskKind, gist, caller, announced, saves, fault,
                fvars, lvars, gvars, cmp, diff>>

InitOverlap ==
    /\ PipelineInit
    /\ maxItemsTotal = MaxBound
    /\ pruneEnabled
    /\ disk \in {<<>>, <<ItOld, ItWa1>>}
    /\ JobIdle
    /\ FsIdle
    /\ loaded = [state |-> "idle"]
    /\ GateIdle
    /\ mono = 0
    /\ cmp = [state |-> "idle"]
    /\ diff = [state |-> "idle"]
    /\ call = [state |-> "runs", fn |-> "overlap",
               at |-> [r \in Runners |-> "idle"],
               cache |-> [r \in Runners |-> <<>>],
               src |-> [r \in Runners |-> 1],
               upserted |-> <<>>]

\* lines 335-341: the run takes its snapshot of cache.json
OverlapLoad(r) ==
    /\ call.fn = "overlap"
    /\ call.at[r] = "idle"
    /\ call' = [call EXCEPT !.at[r] = "loop", !.cache[r] = disk, !.src[r] = 1]
    /\ UNCHANGED <<disk, clock, trans_cache>>
    /\ OverlapFrame

\* lines 350-687 for one source: skipped, failed, unchanged, or upserted into
\* the list of this run; upserted remembers the item of the latest upsert of a key
OverlapSource(r) ==
    /\ call.fn = "overlap"
    /\ call.at[r] = "loop"
    /\ call.src[r] <= NSrc
    /\ LET k == call.src[r]
           c == call.cache[r]
           key == <<SOURCES[k].tag, _fix_facebook_url(SOURCES[k].url), RegionOf(SOURCES[k])>>
           ix == BuildIdx(c)
           present == key \in DOMAIN ix
           existing == IF present THEN c[ix[key]] ELSE NoItem
       IN  \E h \in DocsOf(k) \cup {NoHtml} :
              LET plain == clean_html(h)
                  sig == compute_hash(normalize_plain(plain))
                  secs == extract_sections(h)
                  changed == changed_here(AddedIds(present, existing.sections, secs),
                                          RemovedIds(present, existing.sections, secs),
                                          ModifiedIds(present, existing.sections, secs),
                                          present, existing.hash, sig)
              IN  IF ~SrcValid(SOURCES[k]) \/ h = NoHtml \/ ~changed
                  THEN /\ call' = [call EXCEPT !.src[r] = k + 1]
                       /\ UNCHANGED <<clock, trans_cache>>
                  ELSE \E res \in SummarizeResults(plain) :
                          /\ ~res.raised
                          /\ clock' = IF clock < MaxClock THEN clock + 1 ELSE clock
                          /\ LET summary == IF sig \in DOMAIN trans_cache
                                            THEN trans_cache[sig] ELSE res.value
                                 item == MakeItem(key[1], key[2], key[3], summary, clock', h)
                             IN  /\ trans_cache' =
                                        [s \in DOMAIN trans_cache \cup {sig} |->
                                            IF s \in DOMAIN trans_cache THEN trans_cache[s]
                                            ELSE summary]
                                 /\ call' = [call EXCEPT
                                        !.src[r] = k + 1,
                                        !.cache[r] = IF present
                                                     THEN [c EXCEPT ![ix[key]] = item]
                                                     ELSE Append(c, item),
                                        !.upserted = [q \in DOMAIN call.upserted \cup {key} |->
                                                        IF q = key THEN item
                                                        ELSE call.upserted[q]]]
    /\ UNCHANGED disk
    /\ OverlapFrame

\* lines 689-701: prune, sort, truncate, save the list of this run
OverlapSave(r) ==
    /\ call.fn = "overlap"
    /\ call.at[r] = "loop"
    /\ call.src[r] > NSrc
    /\ disk' = EndOfRun(call.cache[r], disk)
    /\ call' = [call EXCEPT !.at[r] = "done", !.cache[r] = disk']
    /\ UNCHANGED <<clock, trans_cache>>
    /\ OverlapFrame

NextOverlap == \E r \in Runners : OverlapLoad(r) \/ OverlapSource(r) \/ OverlapSave(r)

SpecOverlap == InitOverlap /\ [][NextOverlap]_vars

----------------------------------------------------------------------------
(* pipeline.run_update lines 373-550: the proxy of a source and its retry     *)
(* loop, response by response, for every FETCH_RETRIES from 0 and every       *)
(* proxy configuration.  The responses:                                      *)
(*   ok            200/201/202, or 400/422 with a long body                   *)
(*   short         400/422 with a short body                                  *)
(*   block         200 with a block page or a redirect page despite noscript  *)
(*   redirect_ok   200 with a JS redirect page, the follow-up request answers *)
(*   redirect_NNN  the same, the follow-up request fails with status NNN      *)
(*   sNNN          the request fails with status NNN (403 also for 407, 500   *)
(*                 for 502/503, 404 for every other failure)                  *)

MaxRetries == 3

Responses == {"ok", "short", "block", "redirect_ok", "redirect_403", "redirect_500",
              "redirect_429", "redirect_404", "s403", "s500", "s429", "s404"}

\* the status of the exception a response ends in (0: none is raised)
RaisedStatus(resp) ==
    CASE resp \in {"s403", "redirect_403"} -> 403
      [] resp \in {"s500", "redirect_500"} -> 500
      [] resp \in {"s429", "redirect_429"} -> 429
      [] resp \in {"s404", "redirect_404"} -> 404
      [] resp = "block" -> 200
      [] OTHER -> 0

\* what a response assigns to html before anything is raised ("": nothing)
AssignedHtml(resp) ==
    CASE resp \in {"ok", "redirect_ok"} -> "page"
      [] resp = "block" -> "block"
      [] resp \in {"redirect_403", "redirect_500", "redirect_429", "redirect_404"} -> "redirect"
      [] OTHER -> ""

FollowUps(resp) ==
    IF resp \in {"redirect_ok", "redirect_403", "redirect_500", "redirect_429",
                 "redirect_404"}
    THEN 1 ELSE 0

\* the settings of config.py and the environment that the proxy choice reads;
\* validate_proxy_config demands PROXY_URL with USE_PROXY, and without USE_PROXY
\* it is never read
ProxyConfigs ==
    {c \in [USE_PROXY : BOOLEAN, SOCKS5_URL : BOOLEAN, SOCKS5_URL_EU : BOOLEAN,
            PROXY_URL : BOOLEAN, PROXY_URL_EU : BOOLEAN, PROXY_FALLBACK_EU : BOOLEAN] :
        c.PROXY_URL = c.USE_PROXY}

\* lines 52-102: the proxy handed back for a region
_get_proxy_for_region(c, region) ==
    IF ~c.USE_PROXY THEN "none"
    ELSE IF region = "MD" /\ c.SOCKS5_URL THEN "socks5"
    ELSE IF region = "EU" /\ c.SOCKS5_URL_EU THEN "socks5_eu"
    ELSE IF c.SOCKS5_URL THEN "socks5"
    ELSE IF region = "MD" /\ c.PROXY_URL THEN "http"
    ELSE IF region = "EU" /\ c.PROXY_URL_EU THEN "http_eu"
    ELSE IF c.PROXY_URL THEN "http"
    ELSE "none"

\* a variant that takes the fallback on any attempt
TakesFallback_any_attempt(c, region, status, att) ==
    /\ status \in {407, 403}
    /\ region = "MD"
    /\ c.PROXY_FALLBACK_EU
    /\ c.PROXY_URL_EU

\* line 505
TakesFallback(c, region, status, att) ==
    /\ status \in {407, 403}
    /\ region = "MD"
    /\ c.PROXY_FALLBACK_EU
    /\ c.PROXY_URL_EU
    /\ att = 0

\* a variant of the loop with one attempt more
MoreAttempts_one_more(att, retries) == att < retries

\* for attempt in range(FETCH_RETRIES): another attempt follows this one
MoreAttempts(att, retries) == att + 1 < retries

\* lines 538-550: what becomes of the source once the loop is left
Concluded(f, h) ==
    [f EXCEPT !.state = "source_done",
              !.html = h,
              !.handed = (h # ""),
              !.errors = IF h = "" THEN f.errors + 1 ELSE f.errors]

InitFetch ==
    /\ PureInit
    /\ \E c \in ProxyConfigs, n \in 0..MaxRetries,
          rs \in {<<"MD">>, <<"MD", "GLOBAL">>, <<"GLOBAL", "MD">>} :
          call = [state |-> "source", fn |-> "fetch", cfg |-> c, retries |-> n,
                  regions |-> rs, src |-> 1, attempt |-> 0, proxies |-> "none",
                  html |-> "", err |-> FALSE, handed |-> FALSE, errors |-> 0,
                  sent |-> <<>>, follow |-> 0, last |-> "", after |-> {},
                  switches |-> <<>>]

\* lines 373-401: the proxy of the source, html = None, and the loop is entered;
\* with FETCH_RETRIES = 0 its body never runs
FetchSource ==
    /\ call.fn = "fetch"
    /\ call.state = "source"
    /\ LET f == [call EXCEPT !.proxies = _get_proxy_for_region(call.cfg,
                                                               call.regions[call.src]),
                             !.attempt = 0, !.html = "", !.err = FALSE,
                             !.handed = FALSE, !.errors = 0, !.sent = <<>>,
                             !.follow = 0, !.last = "", !.after = {},
                             !.switches = <<>>]
       IN  call' = IF call.retries = 0 THEN Concluded(f, "")
                   ELSE [f EXCEPT !.state = "request"]
    /\ PureFrame

\* lines 402-537: one pass of the loop body with the response resp, and what
\* follows when the loop is left by it
FetchAttempt ==
    /\ call.fn = "fetch"
    /\ call.state = "request"
    /\ \E resp \in Responses :
          LET region == call.regions[call.src]
              status == RaisedStatus(resp)
              h == IF AssignedHtml(resp) # "" THEN AssignedHtml(resp) ELSE call.html
              more == MoreAttempts(call.attempt, call.retries)
              f == [call EXCEPT !.sent = Append(call.sent, [proxies |-> call.proxies,
                                                           attempt |-> call.attempt]),
                                !.follow = call.follow + FollowUps(resp),
                                !.after = IF call.last = "" THEN call.after
                                          ELSE call.after \cup {call.last},
                                !.last = resp,
                                !.html = h]
              again == [f EXCEPT !.attempt = call.attempt + 1]
          IN  call' =
                IF resp = "short"
                THEN IF more THEN again ELSE Concluded(f, h)
                ELSE IF status = 0
                THEN Concluded(f, h)
                ELSE IF TakesFallback(call.cfg, region, status, call.attempt)
                THEN LET sw == [f EXCEPT
                                  !.proxies = _get_proxy_for_region(call.cfg, "EU"),
                                  !.switches = Append(call.switches,
                                                      [attempt |-> call.attempt,
                                                       status |-> status,
                                                       region |-> region])]
                     IN  IF more THEN [sw EXCEPT !.attempt = call.attempt + 1]
                         ELSE Concluded(sw, h)
                ELSE IF status \in {500, 502, 503, 429, 403, 407} /\ more
                THEN [again EXCEPT !.err = TRUE]
                ELSE Concluded(f, h)
    /\ PureFrame

\* the for loop over SOURCES goes on
FetchNextSource ==
    /\ call.fn = "fetch"
    /\ call.state = "source_done"
    /\ call' = [call EXCEPT !.state = IF call.src < Len(call.regions) THEN "source"
                                       ELSE "finished",
                            !.src = IF call.src < Len(call.regions) THEN call.src + 1
                                    ELSE call.src]
    /\ PureFrame

NextFetch == FetchSource \/ FetchAttempt \/ FetchNextSource

SpecFetch == InitFetch /\ [][NextFetch]_vars /\ WF_vars(NextFetch)

----------------------------------------------------------------------------
(* telegram_notify.notify and notify_dev, lines 29-70, with BOT_TOKEN and a   *)
(* chat id configured.  A text is a sequence of characters, "nl" the newline; *)
(* MAX_LEN is 3500 in the code and scaled down here.                          *)

MAX_LEN == 3
MaxNotify == 7
MaxChunks == 4

NotifyTexts == UNION {[1..n -> {"a", "b", "nl"}] : n \in 0..MaxNotify}

\* text[:MAX_LEN].rfind("\n"): the last index, counted from 0, or -1
rfind_nl(text) ==
    LET head == SubSeq(text, 1, IF Len(text) < MAX_LEN THEN Len(text) ELSE MAX_LEN)
        at == {k \in 1..Len(head) : head[k] = "nl"}
    IN  IF at = {} THEN -1 ELSE (CHOOSE k \in at : \A m \in at : m <= k) - 1

\* lines 34-37 and 58-61
split_idx(text) == IF rfind_nl(text) = -1 THEN MAX_LEN ELSE rfind_nl(text)

\* text.strip() of _send, line 24, for the white space of these texts
RECURSIVE strip(_)
strip(t) ==
    IF t = <<>> THEN t
    ELSE IF Head(t) = "nl" THEN strip(Tail(t))
    ELSE IF t[Len(t)] = "nl" THEN strip(SubSeq(t, 1, Len(t) - 1))
    ELSE t

RECURSIVE JoinChunks(_)
JoinChunks(cs) == IF cs = <<>> THEN <<>> ELSE Head(cs) \o JoinChunks(Tail(cs))

InitNotify ==
    /\ PureInit
    /\ \E t \in NotifyTexts, f \in {"notify", "notify_dev"} :
          call = [state |-> "split", fn |-> f, orig |-> t, text |-> t,
                  chunks |-> <<>>, sent |-> <<>>]

\* one pass of the while loop; the list of chunks of the model is cut short at
\* MaxChunks, the list of the code is not
NotifySplit ==
    /\ call.fn \in {"notify", "notify_dev"}
    /\ call.state = "split"
    /\ Len(call.text) > MAX_LEN
    /\ Len(call.chunks) < MaxChunks
    /\ call' = [call EXCEPT
                  !.chunks = Append(call.chunks, SubSeq(call.text, 1, split_idx(call.text))),
                  !.text = SubSeq(call.text, split_idx(call.text) + 1, Len(call.text))]
    /\ PureFrame

\* the loop is left: chunks.append(text)
NotifyRest ==
    /\ call.fn \in {"notify", "notify_dev"}
    /\ call.state = "split"
    /\ Len(call.text) <= MAX_LEN
    /\ call' = [call EXCEPT !.chunks = Append(call.chunks, call.text),
                            !.state = "send"]
    /\ PureFrame

\* for chunk in chunks: _send(client, cid, chunk)
NotifySend ==
    /\ call.fn \in {"notify", "notify_dev"}
    /\ call.state = "send"
    /\ call' = IF Len(call.sent) < Len(call.chunks)
               THEN [call EXCEPT !.sent = Append(call.sent,
                                                 strip(call.chunks[Len(call.sent) + 1]))]
               ELSE [call EXCEPT !.state = "done"]
    /\ PureFrame

NextNotify == NotifySplit \/ NotifyRest \/ NotifySend

SpecNotify == InitNotify /\ [][NextNotify]_vars /\ WF_vars(NextNotify)

----------------------------------------------------------------------------
(* storage.save_cache and load_cache on a POSIX file system.                *)
(* Paths name inodes; open(tmp, 'w') truncates the inode the path names or  *)
(* creates one; a writer's descriptor keeps its inode and its own offset;   *)
(* os.replace makes the canonical path name the inode the tmp path names.   *)
(* A document is written in ChunksPerDoc buffer flushes.                    *)

Writers == 1..NWriters
MaxIno == 1 + NWriters * MaxSaves

Hole == <<0, 0>>
Doc(w) == [k \in 1..ChunksPerDoc |-> <<w, k>>]
InitialDoc == Doc(0)
CompleteDocs == {Doc(w) : w \in 0..NWriters}

\* write(2) of one chunk at a descriptor's offset
WriteAt(content, off, chunk) ==
    LET n == IF Len(content) > off + 1 THEN Len(content) ELSE off + 1
    IN  [k \in 1..n |-> IF k = off + 1 THEN chunk
                        ELSE IF k <= Len(content) THEN content[k] ELSE Hole]

\* the inode a new file gets: one not in use
FreshIno == CHOOSE n \in 1..MaxIno :
                /\ n # fsTmp /\ n # fsCanon
                /\ \A w \in Writers : writers[w].pc \in {"writing", "replace"} => writers[w].fd # n

FsInit ==
    /\ fsTmp = 0
    /\ fsCanon = 1
    /\ inodes = [n \in 1..MaxIno |-> IF n = 1 THEN InitialDoc ELSE <<>>]
    /\ writers = [w \in Writers |-> [pc |-> "idle", fd |-> 0, off |-> 0, saves |-> 0]]
    /\ readerSaw = InitialDoc

InitSave ==
    /\ PipelineInit
    /\ maxItemsTotal = 0 /\ pruneEnabled /\ disk = <<>>
    /\ JobIdle
    /\ XIdle
    /\ FsInit

\* line 61: open(tmp_file, 'w')
SaveOpen(w) ==
    /\ writers[w].pc = "idle"
    /\ writers[w].saves < MaxSaves
    /\ LET n == IF fsTmp # 0 THEN fsTmp ELSE FreshIno
       IN  /\ fsTmp' = n
           /\ inodes' = [inodes EXCEPT ![n] = <<>>]
           /\ writers' = [writers EXCEPT ![w] =
                            [pc |-> "writing", fd |-> n, off |-> 0,
                             saves |-> writers[w].saves + 1]]
    /\ UNCHANGED <<fsCanon, readerSaw, pvars, xvars>>

\* line 62: json.dump flushes one buffer; after the last one the file is closed
SaveWrite(w) ==
    /\ writers[w].pc = "writing"
    /\ LET o == writers[w].off
       IN  /\ inodes' = [inodes EXCEPT ![writers[w].fd] = WriteAt(@, o, <<w, o + 1>>)]
           /\ writers' = [writers EXCEPT ![w].off = o + 1,
                                         ![w].pc = IF o + 1 = ChunksPerDoc
                                                   THEN "replace" ELSE "writing"]
    /\ UNCHANGED <<fsTmp, fsCanon, readerSaw, pvars, xvars>>

\* line 63: os.replace(tmp_file, CACHE_FILE); FileNotFoundError when the tmp path
\* is gone (lines 68-69 re-raise)
SaveReplace(w) ==
    /\ writers[w].pc = "replace"
    /\ IF fsTmp # 0
       THEN /\ fsCanon' = fsTmp
            /\ fsTmp' = 0
            /\ writers' = [writers EXCEPT ![w].pc = "idle"]
       ELSE /\ writers' = [writers EXCEPT ![w].pc = "failed"]
            /\ UNCHANGED <<fsTmp, fsCanon>>
    /\ UNCHANGED <<inodes, readerSaw, pvars, xvars>>

\* load_cache line 28: CACHE_FILE.read_text()
LoadRead ==
    /\ fsCanon # 0
    /\ readerSaw' = inodes[fsCanon]
    /\ UNCHANGED <<fsTmp, fsCanon, inodes, writers, pvars, xvars>>

NextSave ==
    \/ \E w \in Writers : SaveOpen(w)
    \/ \E w \in Writers : SaveWrite(w)
    \/ \E w \in Writers : SaveReplace(w)
    \/ LoadRead

SpecSave == InitSave /\ [][NextSave]_vars

----------------------------------------------------------------------------
(* Properties *)

\* the valid sources of the configuration and the identities run_update gives them
ValidSrc == {k \in 1..NSrc : SOURCES[k].tag # "" /\ SOURCES[k].url # <<>>}
IdentityOf(k) == <<SOURCES[k].tag, _fix_facebook_url(SOURCES[k].url), RegionOf(SOURCES[k])>>
RawIdentityOf(k) == <<SOURCES[k].tag, SOURCES[k].url, RegionOf(SOURCES[k])>>

\* the section ids of a list of sections, and the signature the list gives an id
IdsOf(secs) == {secs[j].id : j \in 1..Len(secs)}
SigIn(secs, sid) ==
    LET last == CHOOSE j \in 1..Len(secs) :
                    /\ secs[j].id = sid
                    /\ \A m \in 1..Len(secs) : secs[m].id = sid => m <= j
    IN  secs[last].sig

\* C1: when run_update runs a second time and every source returns the same HTML
\* as in the run before, the second run reports changed = 0 and no details
C1_Idempotent ==
    ( /\ pc = "done"
      /\ replay
      /\ \A k \in ValidSrc : fetched[k] # NoHtml /\ fetched[k] = prevFetched[k] )
    => (changed_pages = 0 /\ details = <<>>)

\* C2: with pruning enabled, the prune step keeps exactly the items whose identity
\* is that of a configured source, the items this run created for a source with a
\* rewritten URL included
C2_PruneExact ==
    [][ (pc = "finish" /\ pruneEnabled) =>
          /\ \A n \in 1..Len(cache) :
                (\E k \in ValidSrc : KeyOf(cache[n]) = IdentityOf(k))
                    => \E m \in 1..Len(pruned') : pruned'[m] = cache[n]
          /\ \A m \in 1..Len(pruned') :
                \E k \in ValidSrc : KeyOf(pruned'[m]) \in {IdentityOf(k), RawIdentityOf(k)}
      ]_vars

\* C3: after a completed run no two items of the saved cache have the same
\* (tag, url, region), whatever document the run started from
C3_KeyUnique ==
    pc = "done" =>
        \A a, b \in 1..Len(disk) : a # b => KeyOf(disk[a]) # KeyOf(disk[b])

\* C4: with MAX_ITEMS_TOTAL = N the saved cache has at most N items; when more than
\* N items survived pruning the kept ones are exactly the N of greatest ts, and
\* items of equal ts keep the relative order they had
C4_Beats(a, b) ==
    \/ pruned[a].ts > pruned[b].ts
    \/ (pruned[a].ts = pruned[b].ts /\ a < b)
C4_KeptPos ==
    {a \in 1..Len(pruned) :
        Cardinality({b \in 1..Len(pruned) : C4_Beats(b, a)}) < maxItemsTotal}
C4_Retention ==
    (pc = "done" /\ maxItemsTotal > 0) =>
        /\ Len(disk) <= maxItemsTotal
        /\ Len(pruned) > maxItemsTotal =>
            /\ Len(disk) = maxItemsTotal
            /\ \E f \in [1..maxItemsTotal -> 1..Len(pruned)] :
                /\ {f[k] : k \in 1..maxItemsTotal} = C4_KeptPos
                /\ \A k \in 1..maxItemsTotal : disk[k] = pruned[f[k]]
                /\ \A a, b \in 1..maxItemsTotal :
                      (a < b /\ disk[a].ts = disk[b].ts) => f[a] < f[b]

\* a truncating save where two surviving items have the same ts
C4_Witness ==
    /\ pc = "done"
    /\ maxItemsTotal > 0
    /\ Len(pruned) > maxItemsTotal
    /\ \E a, b \in 1..Len(pruned) : a < b /\ pruned[a].ts = pruned[b].ts

\* the source at position i has a previous item with the hash of the fetched page
\* and the same sections with the same signatures
C5_NothingChanged ==
    /\ CurPresent
    /\ CurExisting.hash = CurSig
    /\ IdsOf(CurExisting.sections) = IdsOf(CurSecs)
    /\ \A sid \in IdsOf(CurSecs) : SigIn(CurExisting.sections, sid) = SigIn(CurSecs, sid)

\* C5: for a source judged unchanged the summarizer is not called, no sentence diff
\* is computed, the cache item is left as it is (its ts too) and neither a detail
\* entry nor a counter is added
C5_Suppression ==
    [][ (pc = "process" /\ C5_NothingChanged) =>
          /\ pc' # "summarize"
          /\ llmCalls' = llmCalls
          /\ sentDiffs' = sentDiffs
          /\ cache' = cache
          /\ details' = details
          /\ changed_pages' = changed_pages
          /\ changed_sections_total' = changed_sections_total
      ]_vars

\* a source was judged unchanged and the run went on
C5_Witness ==
    /\ dec.src # 0
    /\ dec.present
    /\ outcome[dec.src] = "unchanged"

\* C6: a source is treated as changed exactly when added, removed or modified is
\* nonempty, or there is no previous item, or the previous hash differs from the
\* hash of the page; a first-seen page is changed even without sections
C6_ChangeFlag ==
    dec.src # 0 =>
        /\ (outcome[dec.src] # "unchanged") <=>
                \/ dec.added \cup dec.removed \cup dec.modified # {}
                \/ ~dec.present
                \/ dec.existing.hash # dec.page_sig
        /\ ~dec.present => outcome[dec.src] # "unchanged"

\* a first-seen page without sections was taken as changed
C6_Witness ==
    /\ dec.src # 0
    /\ ~dec.present
    /\ dec.new_secs = <<>>
    /\ outcome[dec.src] = "changed"

\* C7: added = ids only in the new sections, removed = ids only in the old ones,
\* modified = ids in both with different signatures; the three are disjoint; with
\* no previous item every new id is added and nothing is removed or modified
C7_StructuralDiff ==
    dec.src # 0 =>
        LET old == IF dec.present THEN IdsOf(dec.existing.sections) ELSE {}
            new == IdsOf(dec.new_secs)
        IN  /\ dec.added = new \ old
            /\ dec.removed = old \ new
            /\ dec.modified = {sid \in new \cap old :
                                 SigIn(dec.new_secs, sid) # SigIn(dec.existing.sections, sid)}
            /\ dec.added \cap dec.removed = {}
            /\ dec.added \cap dec.modified = {}
            /\ dec.removed \cap dec.modified = {}
            /\ ~dec.present => (dec.added = new /\ dec.removed = {} /\ dec.modified = {})
            /\ ( /\ dec.present
                 /\ old = {"intro"}
                 /\ new = {"intro", "fees"}
                 /\ SigIn(dec.new_secs, "intro") = SigIn(dec.existing.sections, "intro") )
               => ( /\ dec.added = {"fees"}
                    /\ dec.modified = {}
                    /\ outcome[dec.src] # "unchanged" )

\* previous sections [intro], new sections [intro, fees] with intro as it was
C7_Witness ==
    /\ dec.src # 0
    /\ dec.present
    /\ IdsOf(dec.existing.sections) = {"intro"}
    /\ IdsOf(dec.new_secs) = {"intro", "fees"}
    /\ SigIn(dec.new_secs, "intro") = SigIn(dec.existing.sections, "intro")
    /\ dec.added = {"fees"}
    /\ outcome[dec.src] = "changed"

\* C8: a source whose fetch raised has an entry in errors and is not processed
C8_FetchFailureRecorded ==
    \A k \in fetchRaised :
        /\ outcome[k] = "error"
        /\ \E n \in 1..Len(errors) : errors[n].tag = SOURCES[k].tag

\* the summary of the item the run started with for source k (empty if none)
PreviousSummary(k) ==
    LET hits == {n \in 1..Len(disk) : KeyOf(disk[n]) = IdentityOf(k)}
    IN  IF hits = {} THEN <<>>
        ELSE disk[CHOOSE n \in hits : \A m \in hits : m <= n].summary

\* C9: a failed LLM request does not abort the run: the source is still recorded as
\* changed and its stored item keeps the summary it had before (empty if none)
C9_SummarizerNonFatal ==
    \A k \in sumFailed :
        /\ pc # "crashed"
        /\ (pc # "done" /\ outcome[k] = "changed") =>
              \E n \in 1..Len(cache) :
                  /\ KeyOf(cache[n]) = IdentityOf(k)
                  /\ cache[n].summary = PreviousSummary(k)

\* C10: the cache file is at every moment a complete document, the old one or a
\* new one, and a reader never gets a partly written file
C10_AtomicSave ==
    /\ fsCanon # 0 => inodes[fsCanon] \in CompleteDocs
    /\ readerSaw \in CompleteDocs

\* C11: during a run cache.json is written only by the end-of-run step, after all
\* sources were processed, and only once; so a run that aborts earlier leaves
\* the file as it was when the run started
C11_SinglePersistence ==
    [][ (disk' # disk \/ diskKind' # diskKind \/ saves' > saves) =>
            (pc = "finish" /\ pc' = "done" /\ saves' = 1) ]_vars

\* the items that survive the prune step of the code (line 693)
C12_Survivors ==
    LET Valid(it) == \E k \in ValidSrc : KeyOf(it) = RawIdentityOf(k)
    IN  IF pruneEnabled THEN SelectSeq(cache, Valid) ELSE cache
C12_Count(seq, x) == Cardinality({n \in 1..Len(seq) : seq[n] = x})

\* C12: the end-of-run step prunes, sorts by ts descending, truncates, saves: the
\* saved list is ordered by ts descending, holds only items that survived
\* pruning, and lacks a survivor only when the survivors exceed the bound
C12_EndOfRunOrder ==
    [][ (pc = "finish" /\ pc' = "done") =>
          /\ \A a, b \in 1..Len(disk') : a < b => disk'[a].ts >= disk'[b].ts
          /\ \A n \in 1..Len(disk') :
                C12_Count(disk', disk'[n]) <= C12_Count(C12_Survivors, disk'[n])
          /\ maxItemsTotal > 0 =>
                Len(disk') = IF Len(C12_Survivors) > maxItemsTotal
                             THEN maxItemsTotal ELSE Len(C12_Survivors)
      ]_vars

\* a save where an item of the run was pruned and a survivor was truncated
C12_Witness ==
    /\ pc = "done"
    /\ pruneEnabled
    /\ maxItemsTotal > 0
    /\ Len(pruned) > maxItemsTotal
    /\ Len(disk) = maxItemsTotal
    /\ \E key \in DOMAIN idx : \A n \in 1..Len(pruned) : KeyOf(pruned[n]) # key

C14_LoadTolerant ==
    loaded.state = "returned" =>
        LET r == loaded.result
            f == loaded.file
        IN  /\ ~r.raised
            /\ r.value.kind = "dict"
            /\ f.kind \in {"list", "dict"} => r.value.items = f.items
            /\ f.kind \in {"scalar", "dict_noitems"} => r.value.items = <<>>
            /\ (f.kind \in {"missing", "garbage"} /\ loaded.backup.kind \in {"disabled", "none"})
                    => r.value.items = <<>>

\* C15: at no moment are more than LLM_MAX_CONCURRENCY calls of summarize_rules
\* in progress, whatever the interleaving of the callers of _summarize_async.
InProgress == {c \in Callers : gpc[c] = "running"}

C15_ConcurrencyGate == Cardinality(InProgress) <= LLM_MAX_CONCURRENCY

\* the gate is full and a further caller is held back at the semaphore
C15_Witness ==
    /\ Cardinality(InProgress) = LLM_MAX_CONCURRENCY
    /\ llm_sem = 0
    /\ \E c \in Callers : gpc[c] = "idle"
    /\ Len(starts) < MaxCalls

\* C16: of any two calls of summarize_rules the later one is started at least
\* LLM_MIN_INTERVAL after the earlier one was started, and _last_llm_ts is
\* read and written only by the holder of _llm_lock.
C16_MinInterval ==
    /\ [](\A m, n \in 1..Len(starts) :
             m < n => starts[n] - starts[m] >= LLM_MIN_INTERVAL)
    /\ [][ /\ last_llm_ts' # last_llm_ts =>
                (llm_lock # 0 /\ gpc[llm_lock] = "lock" /\ gpc'[llm_lock] = "running")
           /\ \A c \in Callers :
                (wake'[c] # wake[c]) => (llm_lock = 0 /\ llm_lock' = c) ]_vars

\* two calls were started, the second after a pause that its caller had to
\* take while a third caller waited for the lock
C16_Witness ==
    /\ Len(starts) >= 2
    /\ starts[2] = starts[1] + LLM_MIN_INTERVAL
    /\ Cardinality(InProgress) = 2

\* C17: within a run the sources are visited in configuration order, and the
\* fetch of a source starts only when every source before it has reached its
\* outcome; no source after the current one has been fetched, so two fetches
\* are never in flight together.
InRun == pc \notin {"idle", "done", "crashed"}

C17_Sequential ==
    /\ [](InRun =>
            \A k \in 1..NSrc :
                /\ (k < i) <=> (outcome[k] # "pending")
                /\ (k > i) => fetched[k] = NoHtml)
    /\ [][ (InRun /\ i' # i) => (i' = i + 1 /\ outcome'[i] # "pending") ]_vars

\* the second source is being fetched, after a retry, when the first has been
\* upserted
C17_Witness ==
    /\ pc = "fetch"
    /\ i = 2
    /\ attempt > 0
    /\ outcome[1] = "changed"
    /\ fetched[1] # NoHtml

\* C18: a run that raised, or a run in which sources failed and nothing
\* changed, is never announced as a plain "no new changes" result.
C18_OutcomeReported ==
    announced = "no_changes" => (pc = "done" /\ fault = "none" /\ errors = <<>>)

\* C19: two fetches of a page that differ only in the date of an update stamp,
\* in any of the formats, have the same page signature and the same signature
\* for every section, and the second is found unchanged against the item built
\* from the first.
C19_StampInsensitive ==
    cmp.state = "compared" =>
        /\ cmp.page_sig = cmp.existing.hash
        /\ \A k \in 1..Len(cmp.new_secs) :
                cmp.new_secs[k].sig = cmp.existing.sections[k].sig
        /\ ~cmp.changed

\* C20: a sentence that occurs in both the old and the new sentence list
\* appears in none of changed.was, changed.now, added and removed; the old text
\* "Ads must disclose funding. Contact us for help." against the new text
\* "Ads must disclose funding source. Contact us for help." gives exactly one
\* changed pair and nothing added or removed.
C20_Reported ==
    {diff.out.changed[k].was : k \in 1..Len(diff.out.changed)}
        \cup {diff.out.changed[k].now : k \in 1..Len(diff.out.changed)}
        \cup Elems(diff.out.added) \cup Elems(diff.out.removed)

C20_SameExcluded ==
    diff.state = "done" =>
        /\ C20_Reported \cap (Elems(diff.old) \cap Elems(diff.new)) = {}
        /\ (diff.old = <<"F", "C">> /\ diff.new = <<"FS", "C">>) =>
                diff.out = [changed |-> <<[was |-> "F", now |-> "FS"]>>,
                            removed |-> <<>>, added |-> <<>>]

\* the example of the claim has been worked
C20_Witness ==
    /\ diff.state = "done"
    /\ diff.old = <<"F", "C">>
    /\ diff.new = <<"FS", "C">>
    /\ Len(diff.out.changed) = 1

\* C21: _fix_facebook_url appends _fb_noscript=1 to a URL that holds one of the
\* Meta/Facebook domains and not yet the parameter, after "?" when the URL has
\* none and after "&" otherwise; it returns every other URL as it is; applied
\* to its own result it changes nothing.
C21_FixUrl ==
    (call.state = "done" /\ call.fn = "_fix_facebook_url") =>
        LET u == call.arg
            meta == \E n \in 1..Len(u) : u[n] \in FbDomains
            has == \E n \in 1..Len(u) : u[n] = "_fb_noscript=1"
            query == \E n \in 1..Len(u) : u[n] = "?"
        IN  /\ (meta /\ ~has) =>
                    /\ Len(call.out) = Len(u) + 2
                    /\ SubSeq(call.out, 1, Len(u)) = u
                    /\ call.out[Len(u) + 1] = (IF query THEN "&" ELSE "?")
                    /\ call.out[Len(u) + 2] = "_fb_noscript=1"
            /\ ~(meta /\ ~has) => call.out = u
            /\ call.again = call.out

\* a Meta URL with a query has got the parameter, and a second call left it alone
C21_Witness ==
    /\ call.state = "done"
    /\ call.fn = "_fix_facebook_url"
    /\ call.arg = <<"facebook.com", "?", "a=1">>
    /\ call.out = <<"facebook.com", "?", "a=1", "&", "_fb_noscript=1">>
    /\ call.again = call.out

\* C22: group_changes_by_region partitions the details: the group keys are the
\* regions that occur (GLOBAL for a detail without region), the group of a
\* region holds the details of that region and no others, in input order, and
\* the group sizes sum to the number of details.
C22_Positions(ds, r) == {n \in 1..Len(ds) : RegionOf(ds[n]) = r}

C22_Partition ==
    (call.state = "done" /\ call.fn = "group_changes_by_region") =>
        LET ds == call.arg
            g == call.out
        IN  /\ DOMAIN g = {RegionOf(ds[n]) : n \in 1..Len(ds)}
            /\ \A r \in DOMAIN g :
                    /\ Len(g[r]) = Cardinality(C22_Positions(ds, r))
                    /\ \E f \in [1..Len(g[r]) -> C22_Positions(ds, r)] :
                          /\ \A a, b \in 1..Len(g[r]) : a < b => f[a] < f[b]
                          /\ \A a \in 1..Len(g[r]) : g[r][a] = ds[f[a]]
            /\ \A r1, r2 \in DOMAIN g :
                    r1 # r2 => \A a \in 1..Len(g[r1]) : RegionOf(g[r1][a]) # r2

\* two regions, one with two details and one made of a detail without region
C22_Witness ==
    /\ call.state = "done"
    /\ call.fn = "group_changes_by_region"
    /\ DOMAIN call.out = {"GLOBAL", "MD"}
    /\ Len(call.out["MD"]) = 2
    /\ call.out["GLOBAL"] = <<[n |-> 1, region |-> "NONE"]>>

\* C23: _pair_changed_sentences takes the old-only sentences in list order and
\* pairs each with the unclaimed new-only sentence of the highest score, the
\* earliest on a tie, and only when that score is above the threshold; no
\* new-only sentence is claimed twice; what is returned is what the function
\* gives for these two lists.
C23_Score(k, m) == Ratio[call.old_only[k]][call.new_only[m]]

C23_Greedy ==
    /\ [][ (call.state = "pairing" /\ call'.state = "pairing") =>
             LET k == call.k
                 j == call'.picks[k]
                 free == {m \in 1..Len(call.new_only) : m \notin call.used}
             IN  /\ call'.k = k + 1
                 /\ Len(call'.picks) = k
                 /\ j # 0 =>
                        /\ j \in free
                        /\ C23_Score(k, j) > call.threshold
                        /\ \A m \in free : C23_Score(k, m) <= C23_Score(k, j)
                        /\ \A m \in free : m < j => C23_Score(k, m) < C23_Score(k, j)
                        /\ call'.used = call.used \cup {j}
                 /\ j = 0 =>
                        /\ \A m \in free : C23_Score(k, m) <= call.threshold
                        /\ call'.used = call.used ]_vars
    /\ [](call.state \in {"pairing", "done"} =>
            \A a, b \in 1..Len(call.picks) :
                (a # b /\ call.picks[a] # 0) => call.picks[a] # call.picks[b])
    /\ [](call.state = "done" =>
            call.out = _pair_changed_sentences(call.old, call.new, call.threshold))

\* two old-only sentences have been paired, the first of them with the earlier
\* of two new-only sentences of equal score
C23_Witness ==
    /\ call.state = "done"
    /\ call.old_only = <<"L", "C">>
    /\ call.new_only = <<"F", "FS">>
    /\ call.picks = <<1, 2>>

\* C24: every occurrence of a sentence in old_only is reported exactly once, as
\* the "was" of a pair or in removed, and every occurrence of a sentence in
\* new_only exactly once, as the "now" of a pair or in added, also when a
\* sentence occurs more than once in a list.
C24_Times(seq, t) == Cardinality({n \in 1..Len(seq) : seq[n] = t})

C24_Accounted ==
    call.state = "done" =>
        LET was == [n \in 1..Len(call.out.pairs) |-> call.out.pairs[n][1]]
            now == [n \in 1..Len(call.out.pairs) |-> call.out.pairs[n][2]]
        IN  \A t \in Sentences :
                /\ C24_Times(call.old_only, t)
                        = C24_Times(was, t) + C24_Times(call.out.old_only_final, t)
                /\ C24_Times(call.new_only, t)
                        = C24_Times(now, t) + C24_Times(call.out.new_only_final, t)

\* C25: _split_sentences cuts the text after every ".", "!", "?" or newline that
\* whitespace follows, so two lines without end punctuation separated by a
\* newline are two sentences; fragments of fewer than 2 characters are dropped
\* and an empty or all-whitespace text gives the empty list.
C25_Letters(t) == Len(t) >= 2 /\ \A n \in 1..Len(t) : t[n] = "x"

C25_SplitRule ==
    (call.state = "done" /\ call.fn = "_split_sentences") =>
        LET t == call.arg
        IN  /\ (\A n \in 1..Len(t) : t[n] \in White) => call.out = <<>>
            /\ \A n \in 1..Len(call.out) : Len(call.out[n]) >= 2
            /\ \A n \in 1..Len(t) :
                    ( /\ t[n] = "."
                      /\ n < Len(t)
                      /\ t[n + 1] \in White
                      /\ C25_Letters(SubSeq(t, 1, n - 1))
                      /\ C25_Letters(SubSeq(t, n + 2, Len(t))) )
                    => call.out = <<SubSeq(t, 1, n), SubSeq(t, n + 2, Len(t))>>
            /\ \A n \in 1..Len(t) :
                    ( /\ t[n] = "nl"
                      /\ C25_Letters(SubSeq(t, 1, n - 1))
                      /\ C25_Letters(SubSeq(t, n + 1, Len(t))) )
                    => call.out = <<SubSeq(t, 1, n - 1), SubSeq(t, n + 1, Len(t))>>

\* C26: when several sections of a page share an id, the last of them stands
\* for the id everywhere in the diff: in the comparison of signatures that
\* makes the id "modified", as the old and the new section handed to the
\* sentence diff, and as the title of a removed section.
C26_Last(sections, sid) ==
    sections[SetMax({k \in 1..Len(sections) : sections[k].id = sid})]

C26_LastWins ==
    (call.state = "done" /\ call.fn = "section_diffs") =>
        /\ \A sid \in SecIds(call.old_sections) \cap SecIds(call.sections_new) :
                (sid \in DOMAIN call.out.changed) <=>
                    (C26_Last(call.old_sections, sid).sig
                        # C26_Last(call.sections_new, sid).sig)
        /\ \A sid \in DOMAIN call.out.changed :
                /\ call.out.changed[sid].old_s = C26_Last(call.old_sections, sid)
                /\ call.out.changed[sid].new_s = C26_Last(call.sections_new, sid)
        /\ \A sid \in DOMAIN call.out.removed :
                call.out.removed[sid] = C26_Last(call.old_sections, sid).title

\* C27: extract_sections emits no section with an empty title or id; there is
\* one section per heading with text, in document order; its text is made of
\* the paragraphs between that heading and the next heading, so a paragraph
\* before the first heading with text, or after a heading without text,
\* belongs to no section.
C27_Headings(nodes) ==
    SelectSeq([k \in 1..Len(nodes) |-> k],
              LAMBDA k : nodes[k].tag = "h2" /\ nodes[k].text # "")

C27_Body(nodes, h) ==
    LET later == {k \in (h + 1)..Len(nodes) : nodes[k].tag = "h2"}
        stop == IF later = {} THEN Len(nodes) + 1
                ELSE CHOOSE k \in later : \A m \in later : k <= m
        inside == SelectSeq([k \in 1..Len(nodes) |-> k],
                            LAMBDA k : /\ h < k
                                       /\ k < stop
                                       /\ nodes[k].tag = "p"
                                       /\ nodes[k].text # "-")
    IN  [k \in 1..Len(inside) |-> nodes[inside[k]].text]

C27_Sections ==
    (call.state = "done" /\ call.fn = "extract_sections") =>
        LET hs == C27_Headings(call.arg)
        IN  /\ Len(call.out) = Len(hs)
            /\ \A k \in 1..Len(call.out) :
                    /\ call.out[k].title # ""
                    /\ call.out[k].id # ""
                    /\ call.out[k].title = call.arg[hs[k]].text
                    /\ call.out[k].text = C27_Body(call.arg, hs[k])

\* a section, then a heading without text whose paragraph went to no section
C27_Witness ==
    /\ call.state = "done"
    /\ call.fn = "extract_sections"
    /\ call.arg = <<[tag |-> "h2", text |-> "Intro"], [tag |-> "p", text |-> "x."],
                    [tag |-> "h2", text |-> ""], [tag |-> "p", text |-> "y."]>>
    /\ Len(call.out) = 1
    /\ call.out[1].text = <<"x.">>

\* C28: the step that stores a changed source puts the newly built item at the
\* position of its key, or at the end when the key had none; the item is made
\* of the values of this run only; every other position, and so every item
\* with another key, is as before; and while the sources are processed every
\* key of idx points at an item with that key.
C28_IdxConsistent ==
    pc \in {"fetch", "process", "summarize", "finish"} =>
        \A k \in DOMAIN idx : idx[k] \in 1..Len(cache) /\ KeyOf(cache[idx[k]]) = k

C28_Stored ==
    changed_pages' = changed_pages + 1 =>
        LET pos == IF CurPresent THEN idx[CurKey] ELSE Len(cache) + 1
        IN  /\ Len(cache') = IF CurPresent THEN Len(cache) ELSE Len(cache) + 1
            /\ \A j \in 1..Len(cache) : j # pos => cache'[j] = cache[j]
            /\ \A j \in 1..Len(cache) : KeyOf(cache[j]) # CurKey => cache'[j] = cache[j]
            /\ cache'[pos] = [tag |-> CurTag, url |-> CurUrl, region |-> CurRegion,
                              summary |-> trans_cache'[CurSig], ts |-> clock',
                              hash |-> CurSig, sections |-> CurSecs,
                              full_text |-> CurPlain]
            /\ idx' = [k \in DOMAIN idx \cup {CurKey} |-> IF k = CurKey THEN pos ELSE idx[k]]

C28_Upsert == [] C28_IdxConsistent /\ [][C28_Stored]_vars

\* the item of a key was replaced where it stood, next to an item that stayed
C28_Witness ==
    /\ pc \in {"fetch", "process", "summarize", "finish"}
    /\ dec.present
    /\ outcome[dec.src] = "changed"
    /\ Len(cache) >= 2
    /\ \E j \in 1..Len(cache) : /\ cache[j] # dec.existing
                                 /\ KeyOf(cache[j]) = KeyOf(dec.existing)
                                 /\ cache[j].ts = clock
    /\ \E j \in 1..Len(cache) : cache[j].ts < clock

\* C29: across the runs of one process the summarizer is invoked at most once
\* for each page signature.
C29_OncePerSignature ==
    call.fn = "run_update" =>
        \A p \in ChangedPlains : call.invoked[p] <= 1

\* C30: a clipped string is never longer than the limit; a string whose
\* trimmed form fits the limit comes out as that trimmed form, so a sentence
\* without blanks at its ends comes out unchanged; a longer one comes out as
\* a beginning of it, shorter than the limit, followed by the ellipsis.
C30_Clipped ==
    (call.state = "done" /\ call.fn = "_clip_line") =>
        LET t == StripChars(call.arg, White)
            out == call.out
        IN  /\ Len(out) <= call.limit
            /\ Len(t) <= call.limit => out = t
            /\ (Len(call.arg) <= call.limit /\ t = call.arg) => out = call.arg
            /\ Len(t) > call.limit =>
                    /\ Len(out) >= 1
                    /\ out[Len(out)] = "..."
                    /\ SubSeq(out, 1, Len(out) - 1) = SubSeq(t, 1, Len(out) - 1)
                    /\ out # t

\* a string of five characters cut at the limit of three: the blank left at
\* the cut is dropped before the ellipsis
C30_Witness ==
    /\ call.state = "done"
    /\ call.fn = "_clip_line"
    /\ call.arg = <<"x", " ", "x", "x", "x">>
    /\ call.limit = 3
    /\ call.out = <<"x", "...">>

\* C31: the body of a block page is never handed to the normalizer and never
\* stored: no source is processed with such a body and no cache item holds
\* its text.
C31_BlockTerminal ==
    /\ pc \in {"process", "summarize"} => html.kind # "blocked"
    /\ \A j \in 1..Len(cache) : cache[j].full_text # clean_html(DBlock)

\* C32: after two overlapping runs have both finished, cache.json holds, for
\* every key upserted by either of them, the item of the latest upsert.
C32_NoLostUpdate ==
    (call.fn = "overlap" /\ \A r \in Runners : call.at[r] = "done") =>
        \A key \in DOMAIN call.upserted :
            \E j \in 1..Len(disk) : disk[j] = call.upserted[key]

\* C33: with MAX_ITEMS_TOTAL not configured the end-of-run step evicts nothing:
\* the saved list has every item that survived pruning.
C33_NoEviction ==
    [][ (pc = "finish" /\ pc' = "done" /\ maxItemsTotal = 0) =>
          /\ Len(disk') = Len(pruned')
          /\ \A n \in 1..Len(pruned') : \E m \in 1..Len(disk') : disk'[m] = pruned'[n]
      ]_vars

\* C34: two fetches of a page that carry the same update stamp and differ in a
\* sentence on a later line have different page signatures, and the second is
\* found changed against the item built from the first.
C34_Sensitive ==
    cmp.state = "compared" =>
        /\ cmp.page_sig # cmp.existing.hash
        /\ cmp.changed

\* C35: in the report of a run every source with a tag and a url has exactly
\* one errors entry, or exactly one details entry and its item in the cache,
\* or neither; never both; a source not yet reached has none; changed is the
\* number of details entries and sections_total_changed the sum of their
\* added, modified and removed sections.
C35_ErrorsOf(k) ==
    {n \in 1..Len(errors) :
        <<errors[n].tag, errors[n].url, errors[n].region>> = IdentityOf(k)}

C35_DetailsOf(k) ==
    {n \in 1..Len(details) :
        <<details[n].tag, details[n].url, details[n].region>> = IdentityOf(k)}

RECURSIVE C35_Sections(_)
C35_Sections(n) ==
    IF n = 0 THEN 0
    ELSE C35_Sections(n - 1) + Cardinality(details[n].added)
            + Cardinality(details[n].modified) + Cardinality(details[n].removed)

C35_Accounting ==
    pc \in {"fetch", "process", "summarize", "finish", "done"} =>
        /\ \A k \in ValidSrc :
              /\ Cardinality(C35_ErrorsOf(k)) + Cardinality(C35_DetailsOf(k)) <= 1
              /\ (k >= i /\ pc # "done") =>
                    (C35_ErrorsOf(k) = {} /\ C35_DetailsOf(k) = {})
              /\ (C35_DetailsOf(k) # {} /\ pc # "done") =>
                    \E j \in 1..Len(cache) :
                        /\ KeyOf(cache[j]) = IdentityOf(k)
                        /\ cache[j].full_text = clean_html(fetched[k])
        /\ Len(errors) = Cardinality(UNION {C35_ErrorsOf(k) : k \in ValidSrc})
        /\ Len(details) = Cardinality(UNION {C35_DetailsOf(k) : k \in ValidSrc})
        /\ changed_pages = Len(details)
        /\ changed_sections_total = C35_Sections(Len(details))

\* a report with one error, one detail and a section counted
C35_Witness ==
    /\ pc = "done"
    /\ \E a, b \in ValidSrc : C35_ErrorsOf(a) # {} /\ C35_DetailsOf(b) # {}
    /\ changed_pages = 1
    /\ changed_sections_total >= 1

\* C36: for each source the loop makes at most FETCH_RETRIES requests and at
\* most one follow-up request for each of them; a further request follows only
\* a failure with status 500, 502, 503, 429, 403 or 407 or a short 400/422
\* body; the source ends with HTML handed on and no error entry, or with
\* exactly one error entry; and the loop over the sources comes to its end.
C36_Bound ==
    call.fn = "fetch" =>
        /\ Len(call.sent) <= call.retries
        /\ call.follow <= Len(call.sent)
        /\ call.after \subseteq {"short", "s403", "s500", "s429", "redirect_403",
                                 "redirect_500", "redirect_429"}
        /\ call.state \in {"source_done", "finished"} =>
              \/ call.handed /\ call.html # "" /\ call.errors = 0
              \/ ~call.handed /\ call.html = "" /\ call.errors = 1

C36_BoundedRetries == [] C36_Bound /\ <>(call.fn = "fetch" /\ call.state = "finished")

\* three attempts used up, and a source with no attempt at all
C36_Witness ==
    /\ call.fn = "fetch"
    /\ call.state = "finished"
    /\ call.retries = MaxRetries
    /\ Len(call.sent) = MaxRetries
    /\ call.after = {"s500", "short"}
    /\ call.errors = 1

\* C37: the switch to the EU proxy is taken at most once for a source, only on
\* its first attempt, only for an MD source that failed with 403 or 407 while
\* the fallback and an EU proxy are configured; every request of the source
\* after the switch goes through the EU proxy; and the first request of every
\* source goes through the proxy of its own region.
C37_Fallback ==
    call.fn = "fetch" =>
        /\ Len(call.switches) <= 1
        /\ \A n \in 1..Len(call.switches) :
              /\ call.switches[n].attempt = 0
              /\ call.switches[n].region = "MD"
              /\ call.switches[n].status \in {403, 407}
              /\ call.cfg.PROXY_FALLBACK_EU /\ call.cfg.PROXY_URL_EU
        /\ \A n \in 1..Len(call.sent) :
              IF call.switches # <<>> /\ call.sent[n].attempt > call.switches[1].attempt
              THEN call.sent[n].proxies \in {"socks5_eu", "http_eu"}
              ELSE call.sent[n].proxies =
                     _get_proxy_for_region(call.cfg, call.regions[call.src])

\* C38: for every text notify and notify_dev come to their end, every chunk is
\* at most MAX_LEN long, the chunks joined in order are the text, and every
\* pass of the splitting loop shortens the text that remains.
C38_Chunks ==
    call.fn \in {"notify", "notify_dev"} =>
        /\ \A n \in 1..Len(call.chunks) : Len(call.chunks[n]) <= MAX_LEN
        /\ call.state \in {"send", "done"} => JoinChunks(call.chunks) = call.orig

C38_Chunking ==
    /\ [] C38_Chunks
    /\ [][ (call.state = "split" /\ call'.state = "split") =>
             Len(call'.text) < Len(call.text) ]_vars
    /\ <>(call.state = "done")

====
